---- MODULE Spec2Model ----
(***************************************************************************)
(* LaTeX -> HTML conversion pipeline of app.py and simple_converter.py.    *)
(*                                                                         *)
(* A text is a sequence of tokens.  Every punctuation character that a     *)
(* pattern of the program looks at is a token of its own (backslash,       *)
(* braces, brackets, percent, newline, blank); a run of letters is one     *)
(* token.  The regular expressions and string operations of the program    *)
(* are operators over such sequences, leftmost match first, as Python's    *)
(* re and str do them.                                                     *)
(***************************************************************************)
EXTENDS Integers, Sequences, FiniteSets, TLC

VARIABLES
    frags,      \* the pieces the input text was assembled from
    kw,         \* index of the theorem keyword the input pieces use
    impl,       \* which copy of the preprocessing stage ran: "app" | "simple"
    pc,         \* position of the text-function under check
    out,        \* its result
    files,      \* the paths of the include files that exist on disk
    tools,      \* which external tools shutil.which finds: pdflatex, pdftoppm
    tk,         \* the running preprocess_tikz call: position and local variables
    calls,      \* the external processes started so far, with their exit codes
    cv,         \* the running conversion request: position and local variables
    disk,       \* the files the conversion wrote: name -> content
    batch,      \* the running process_latex_zip call: position and local variables
    jobs,       \* the conversions that run at the same time: position and local variables
    shared,     \* the files of the upload directory they work in: name -> content, writer
    bm,         \* the running preprocess_beamer_frames call: position and local variables
    stack,      \* the call stack of resolve_includes: one frame per call, innermost last
    order       \* the order in which the keyword loop of the theorem rewrite runs

tikzVars == <<tools, tk, calls>>
convVars == <<cv, disk>>
callVars == <<batch, jobs, shared, bm, stack, order>>
vars == <<frags, kw, impl, pc, out, files, tools, tk, calls, cv, disk, callVars>>

\* ------------------------------------------------------------------ bounds
MaxFrags == 3
MaxTikzFrags == 4
MaxConvFrags == 2

\* ------------------------------------------------------------------ tokens
BS == "\\"
NL == "\n"
SP == " "

Cmd(name) == <<BS, name>>
Braced(t) == <<"{">> \o t \o <<"}">>
BeginEnv(env) == <<BS, "begin", "{", env, "}">>
EndEnv(env) == <<BS, "end", "{", env, "}">>

\* ------------------------------------------------------- string operations
Tail_(s, i) == SubSeq(s, i, Len(s))

MatchAt(s, i, p) ==
    /\ i >= 1
    /\ i + Len(p) - 1 <= Len(s)
    /\ \A j \in 1..Len(p) : s[i + j - 1] = p[j]

\* str.find: index of the first occurrence of p in s at or after from, 0 if none
RECURSIVE Find(_, _, _)
Find(s, p, from) ==
    IF from + Len(p) - 1 > Len(s) THEN 0
    ELSE IF MatchAt(s, from, p) THEN from
    ELSE Find(s, p, from + 1)

\* p in s
Contains(s, p) == Find(s, p, 1) # 0

\* number of non-overlapping occurrences of p in s (str.count); i is the next
\* occurrence, 0 when there is none
RECURSIVE count_from(_, _, _)
count_from(s, p, i) == IF i = 0 THEN 0 ELSE 1 + count_from(s, p, Find(s, p, i + Len(p)))

Count(s, p) == count_from(s, p, Find(s, p, 1))

\* str.replace(old, new, count) on the text from position from on; i is the
\* next occurrence of old; count < 0 replaces every occurrence
RECURSIVE str_replace_from(_, _, _, _, _, _)
str_replace_from(s, old, new, count, from, i) ==
    IF count = 0 \/ i = 0 THEN Tail_(s, from)
    ELSE SubSeq(s, from, i - 1) \o new
         \o str_replace_from(s, old, new, count - 1, i + Len(old),
                             Find(s, old, i + Len(old)))

str_replace(s, old, new, count) == str_replace_from(s, old, new, count, 1, Find(s, old, 1))

\* str.split(sep) on the text from position from on; i is the next separator
RECURSIVE split_from(_, _, _, _)
split_from(s, sep, from, i) ==
    IF i = 0 THEN <<Tail_(s, from)>>
    ELSE <<SubSeq(s, from, i - 1)>> \o split_from(s, sep, i + 1, Find(s, <<sep>>, i + 1))

split(s, sep) == split_from(s, sep, 1, Find(s, <<sep>>, 1))

RECURSIVE join(_, _)
join(parts, sep) ==
    IF Len(parts) = 0 THEN <<>>
    ELSE IF Len(parts) = 1 THEN parts[1]
    ELSE parts[1] \o <<sep>> \o join(Tail(parts), sep)

IsSpace(t) == t \in {SP, NL, "\t"}

RECURSIVE lstrip(_)
lstrip(s) == IF Len(s) > 0 /\ IsSpace(s[1]) THEN lstrip(Tail(s)) ELSE s

RECURSIVE rstrip(_)
rstrip(s) ==
    IF Len(s) > 0 /\ IsSpace(s[Len(s)]) THEN rstrip(SubSeq(s, 1, Len(s) - 1)) ELSE s

strip_nothing(s) == s

strip(s) == rstrip(lstrip(s))

\* ------------------------------------------------------ regular expressions
\* Index of the first token `close` after position j, provided at least `min`
\* tokens lie between (a class [^close] repeated * or +, then close); 0 if none.
ClassUntil(s, j, close, min) ==
    IF \E k \in (j + 1)..(j + min) : k <= Len(s) /\ s[k] = close THEN 0
    ELSE Find(s, <<close>>, j + 1)

\* an optional group (?:open [^close]* close)? right after position e: the
\* position of its close when it is there, else e
or_else(k, e) == IF k # 0 THEN k ELSE e

optional_group(s, e, open, close, min) ==
    IF e + 1 <= Len(s) /\ s[e + 1] = open
    THEN or_else(ClassUntil(s, e + 1, close, min), e)
    ELSE e

\* c + n when the search that gave c found something
found_plus(c, n) == IF c = 0 THEN 0 ELSE c + n

theorem_envs ==
    << <<"definition", "Definition">>, <<"theorem", "Theorem">>, <<"lemma", "Lemma">>,
       <<"corollary", "Corollary">>, <<"proposition", "Proposition">>,
       <<"remark", "Remark">>, <<"example", "Example">>, <<"exercise", "Exercise">>,
       <<"proof", "Proof">> >>

\* A pattern is a record; kind names the regular expression, env/display its
\* parameters.
\* the order of theorem_envs.items(): the order of the table
TableOrder == [n \in 1..Len(theorem_envs) |-> n]

Pat(kind) == [kind |-> kind, env |-> "", display |-> ""]
EnvPat(kind, e) == [kind |-> kind, env |-> e[1], display |-> e[2]]

\* \\begin\{env\}(?:\[(?P<title>[^\]]+)\])?  : end of the match that starts at i
begin_pattern_end(s, i, env) ==
    IF ~MatchAt(s, i, BeginEnv(env)) THEN 0 ELSE optional_group(s, i + 4, "[", "]", 1)

\* \\cmd\{([^}]+)\} (min = 1) or \\cmd\{([^}]*)\} (min = 0)
cmd_group_end(s, i, name, min) ==
    IF ~MatchAt(s, i, <<BS, name, "{">>) THEN 0 ELSE ClassUntil(s, i + 2, "}", min)

\* \\framebox\{\\parbox\{[^}]*\}\{([\s\S]*?)\}\} : w is the close of the width
\* argument of \parbox
parbox_body_start(s, w) == IF w = 0 \/ w + 1 > Len(s) \/ s[w + 1] # "{" THEN 0 ELSE w + 2

framebox_body_start(s, i) ==
    IF ~MatchAt(s, i, <<BS, "framebox", "{", BS, "parbox", "{">>) THEN 0
    ELSE parbox_body_start(s, ClassUntil(s, i + 5, "}", 0))

framebox_close(s, b) == IF b = 0 THEN 0 ELSE found_plus(Find(s, <<"}", "}">>, b), 1)

framebox_end(s, i) == framebox_close(s, framebox_body_start(s, i))

\* \\begin\{frame\}(?:\[[^\]]*\])?(?:\{([^}]*)\})?  : the end of the bracketed
\* options, when the match at i has them (else the end of \begin{frame})
begin_frame_options_end(s, i) == optional_group(s, i + 4, "[", "]", 0)

begin_frame_end(s, i) ==
    IF ~MatchAt(s, i, BeginEnv("frame")) THEN 0
    ELSE optional_group(s, begin_frame_options_end(s, i), "{", "}", 0)

\* group 1 of a begin-frame match that ends at e, its options ending at e1: the
\* inline title, empty when absent
title_after(s, e1, e) == IF e > e1 THEN SubSeq(s, e1 + 2, e - 1) ELSE <<>>

begin_frame_title(s, i, e) == title_after(s, begin_frame_options_end(s, i), e)

\* \\documentclass(?:\[[^\]]*\])?\{beamer\}
beamer_after(s, e1) == IF MatchAt(s, e1 + 1, Braced(<<"beamer">>)) THEN e1 + 3 ELSE 0

beamer_class_end(s, i) ==
    IF ~MatchAt(s, i, Cmd("documentclass")) THEN 0
    ELSE beamer_after(s, optional_group(s, i + 1, "[", "]", 0))

\* \\(?:include|input|chapter|section)\{[^}]+\}
structural_end(s, i) ==
    IF \E name \in {"include", "input", "chapter", "section"} : MatchAt(s, i, <<BS, name, "{">>)
    THEN ClassUntil(s, i + 2, "}", 1) ELSE 0

\* <html(?![^>]*\blang=)([^>]*)>  over HTML tokens: a tag is opened by a token
\* such as "<html", carries attribute tokens and is closed by the token ">"
tag_without_lang(s, i, k) ==
    IF k = 0 \/ (\E j \in (i + 1)..(k - 1) : s[j] = "lang=") THEN 0 ELSE k

html_without_lang_end(s, i) ==
    IF i > Len(s) \/ s[i] # "<html" THEN 0
    ELSE tag_without_lang(s, i, ClassUntil(s, i, ">", 0))

RECURSIVE skip_spaces(_, _)
skip_spaces(s, j) == IF j <= Len(s) /\ IsSpace(s[j]) THEN skip_spaces(s, j + 1) ELSE j

\* <blockquote>(\s*<p>\s*<strong>keyword</strong>)  with keyword 'Display:'
strong_label_end(s, m, display) ==
    IF MatchAt(s, m, <<"<strong>", display, ":", "</strong>">>) THEN m + 3 ELSE 0

paragraph_label_end(s, j, display) ==
    IF j > Len(s) \/ s[j] # "<p>" THEN 0
    ELSE strong_label_end(s, skip_spaces(s, j + 1), display)

blockquote_label_end(s, i, display) ==
    IF i > Len(s) \/ s[i] # "<blockquote>" THEN 0
    ELSE paragraph_label_end(s, skip_spaces(s, i + 1), display)

\* End (inclusive) of the match of pattern p that starts at position i, 0 if none.
MatchEnd(p, s, i) ==
    CASE p.kind = "begin_env"       -> begin_pattern_end(s, i, p.env)
      [] p.kind = "end_env"         -> IF MatchAt(s, i, EndEnv(p.env)) THEN i + 4 ELSE 0
      [] p.kind = "begin_multicols" ->
            IF MatchAt(s, i, BeginEnv("multicols") \o <<"{">>)
            THEN ClassUntil(s, i + 5, "}", 1) ELSE 0
      [] p.kind = "end_multicols"   -> IF MatchAt(s, i, EndEnv("multicols")) THEN i + 4 ELSE 0
      [] p.kind = "label"           -> cmd_group_end(s, i, "label", 1)
      [] p.kind \in {"ref_app", "ref_simple"} -> cmd_group_end(s, i, "ref", 1)
      [] p.kind = "title"           -> cmd_group_end(s, i, "title", 0)
      [] p.kind = "author"          -> cmd_group_end(s, i, "author", 0)
      [] p.kind = "date"            -> cmd_group_end(s, i, "date", 0)
      [] p.kind = "framebox"        -> framebox_end(s, i)
      [] p.kind = "begin_frame"     -> begin_frame_end(s, i)
      [] p.kind = "frametitle"      -> cmd_group_end(s, i, "frametitle", 0)
      [] p.kind = "beamer_class"    -> beamer_class_end(s, i)
      [] p.kind = "structural"      -> structural_end(s, i)
      [] p.kind = "html_lang"       -> html_without_lang_end(s, i)
      [] p.kind = "blockquote"      -> blockquote_label_end(s, i, p.display)
      [] p.kind = "documentclass"   ->
            IF MatchAt(s, i, Cmd("documentclass")) THEN ClassUntil(s, i + 1, NL, 0) ELSE 0
      [] p.kind = "tikz"            ->
            IF MatchAt(s, i, BeginEnv("tikzpicture"))
            THEN found_plus(Find(s, EndEnv("tikzpicture"), i + 5), 4) ELSE 0
      [] p.kind = "include"         ->
            IF MatchAt(s, i, <<BS, "include", "{">>) \/ MatchAt(s, i, <<BS, "input", "{">>)
            THEN ClassUntil(s, i + 2, "}", 1) ELSE 0
      [] OTHER                      -> 0

\* re.search: the leftmost match as its start and end, NoMatch if none
NoMatch == [start |-> 0, end |-> 0]

RECURSIVE re_search_from(_, _, _)
match_or_next(p, s, i, e) ==
    IF e # 0 THEN [start |-> i, end |-> e] ELSE re_search_from(p, s, i + 1)

re_search_from(p, s, i) ==
    IF i > Len(s) THEN NoMatch ELSE match_or_next(p, s, i, MatchEnd(p, s, i))

re_search(p, s) == re_search_from(p, s, 1)

\* the text of group 1 of a \cmd{...} match
Group1(s, i, e) == SubSeq(s, i + 3, e - 1)

\* (mutation of replace_begin: the bracketed title is dropped from the label)
replace_begin_untitled(display, title) ==
    BeginEnv("quote") \o <<NL>> \o Cmd("textbf") \o Braced(<<display, ":">>) \o <<SP>>

\* the begin label f'\\begin{{quote}}\n\\textbf{{{display_name}{title_suffix}:}} '
replace_begin(display, title) ==
    LET title_suffix == IF Len(title) > 0 THEN <<SP, "(">> \o title \o <<")">> ELSE <<>>
    IN  BeginEnv("quote") \o <<NL>> \o Cmd("textbf")
        \o Braced(<<display>> \o title_suffix \o <<":">>) \o <<SP>>

\* r'\\textit{\1}' in app.py
ref_template_app(name) == Cmd("textit") \o Braced(name)

\* r'\\textit{\\1}' in simple_converter.py: the second backslash is escaped, so
\* the template holds a backslash and the digit 1, not a group reference
ref_template_simple(name) == Cmd("textit") \o Braced(<<BS, "1">>)

\* what a match s[i..e] of pattern p is replaced by
Replacement(p, s, i, e) ==
    CASE p.kind = "begin_env"  ->
            \* the optional title group: the text between [ and ], or empty
            replace_begin(p.display, IF e > i + 4 THEN SubSeq(s, i + 6, e - 1) ELSE <<>>)
      [] p.kind = "end_env"    -> EndEnv("quote")
      [] p.kind = "ref_app"    -> ref_template_app(Group1(s, i, e))
      [] p.kind = "ref_simple" -> ref_template_simple(Group1(s, i, e))
      [] p.kind = "documentclass" ->
            SubSeq(s, i, e) \o Cmd("usepackage") \o Braced(<<"graphicx">>) \o <<NL>>
      [] p.kind = "html_lang"  ->
            <<"<html">> \o SubSeq(s, i + 1, e - 1) \o <<SP, "lang=", "en", ">">>
      [] p.kind = "blockquote" ->
            <<"<blockquote class=theorem-block data-theorem=", p.env, ">">>
            \o SubSeq(s, i + 1, e)
      [] p.kind = "framebox"   ->
            BeginEnv("quote") \o <<NL>>
            \o SubSeq(s, framebox_body_start(s, i), e - 2)
            \o <<NL>> \o EndEnv("quote")
      [] OTHER                 -> <<>>

\* re.sub(pattern, repl, s): every non-overlapping match, left to right; e is
\* the end of the match at i, 0 when there is none
RECURSIVE re_sub_from(_, _, _)
re_sub_at(p, s, i, e) ==
    IF e # 0 THEN Replacement(p, s, i, e) \o re_sub_from(p, s, e + 1)
    ELSE <<s[i]>> \o re_sub_from(p, s, i + 1)

re_sub_from(p, s, i) ==
    IF i > Len(s) THEN <<>> ELSE re_sub_at(p, s, i, MatchEnd(p, s, i))

re_sub(p, s) == re_sub_from(p, s, 1)

\* re.sub(pattern, repl, s, count=1): the leftmost match m only
re_sub_match(p, s, m) ==
    IF m.start = 0 THEN s
    ELSE SubSeq(s, 1, m.start - 1) \o Replacement(p, s, m.start, m.end)
         \o Tail_(s, m.end + 1)

re_sub_first(p, s) == re_sub_match(p, s, re_search(p, s))

\* list(pattern.finditer(s)): the non-overlapping matches, left to right
RECURSIVE finditer_from(_, _, _)
finditer_at(p, s, i, e) ==
    IF e # 0 THEN <<[start |-> i, end |-> e]>> \o finditer_from(p, s, e + 1)
    ELSE finditer_from(p, s, i + 1)

finditer_from(p, s, i) ==
    IF i > Len(s) THEN <<>> ELSE finditer_at(p, s, i, MatchEnd(p, s, i))

finditer(p, s) == finditer_from(p, s, 1)

\* ------------------------------------------------------- title block (4.2)
\* match.group(1).strip() if match else ''
field_text(content, m) ==
    IF m.start = 0 THEN <<>> ELSE strip(Group1(content, m.start, m.end))

field_of(p, content) == field_text(content, re_search(p, content))

extract_title_info(content) ==
    [title  |-> field_of(Pat("title"), content),
     author |-> field_of(Pat("author"), content),
     date   |-> field_of(Pat("date"), content)]

\* (None is the empty text: a built block is never empty)
build_title_block(info) ==
    IF Len(info.title) = 0 /\ Len(info.author) = 0 /\ Len(info.date) = 0 THEN <<>>
    ELSE LET lines ==
                 <<BeginEnv("center")>>
                 \o (IF Len(info.title) > 0
                     THEN << <<"{", BS, "LARGE", SP>> \o info.title \o <<BS, "par", "}">> >>
                     ELSE <<>>)
                 \o (IF Len(info.author) > 0
                     THEN << Cmd("vspace") \o Braced(<<"0.5em">>),
                             <<"{", BS, "large", SP>> \o info.author \o <<BS, "par", "}">> >>
                     ELSE <<>>)
                 \o (IF Len(info.date) > 0
                     THEN << Cmd("vspace") \o Braced(<<"0.5em">>),
                             <<"{", BS, "large", SP>> \o info.date \o <<BS, "par", "}">> >>
                     ELSE <<>>)
                 \o <<EndEnv("center")>>
         IN  join(lines, NL)

\* the if title_block: ... placement of the block
place_title_block(content, title_block) ==
    IF title_block = <<>> THEN content
    ELSE IF Contains(content, Cmd("maketitle"))
         THEN str_replace(content, Cmd("maketitle"), title_block, -1)
    ELSE IF Contains(content, BeginEnv("document"))
         THEN str_replace(content, BeginEnv("document"),
                          BeginEnv("document") \o <<NL>> \o title_block, 1)
    ELSE title_block \o <<NL>> \o content

\* ---------------------------------------------------- framebox/parbox (4.3)
convert_framebox_parbox(text) == re_sub(Pat("framebox"), text)

\* ------------------------------------------------------ comment split (4.1)
\* re.search(r'(?<!\\)%', line): a percent whose previous token is no backslash
RECURSIVE comment_start_from(_, _)
comment_start_from(line, i) ==
    IF i > Len(line) THEN 0
    ELSE IF line[i] = "%" /\ (i = 1 \/ line[i - 1] # BS) THEN i
    ELSE comment_start_from(line, i + 1)

split_at(line, i) ==
    IF i # 0 THEN [code |-> SubSeq(line, 1, i - 1), comment |-> Tail_(line, i)]
    ELSE [code |-> line, comment |-> <<>>]

split_comment(line) == split_at(line, comment_start_from(line, 1))

\* -------------------------------------------------- theorem rewriter (4.4)
\* one pass of the for env_name, display_name loop: begin pattern, then end
rewrite_env(code, e) ==
    re_sub(EnvPat("end_env", e), re_sub(EnvPat("begin_env", e), code))

RECURSIVE rewrite_envs(_, _)
rewrite_envs(code, n) ==
    IF n > Len(theorem_envs) THEN code
    ELSE rewrite_envs(rewrite_env(code, theorem_envs[n]), n + 1)

\* the keyword loop run over the table in another order
RECURSIVE rewrite_envs_in(_, _, _)
rewrite_envs_in(code, ord, n) ==
    IF n > Len(ord) THEN code
    ELSE rewrite_envs_in(rewrite_env(code, theorem_envs[ord[n]]), ord, n + 1)

strip_multicols(code) == re_sub(Pat("end_multicols"), re_sub(Pat("begin_multicols"), code))

\* the body of the line loop, sc the split line
rewrite_line(sc) == rewrite_envs(strip_multicols(sc.code), 1) \o sc.comment

map_lines(lines) == [i \in 1..Len(lines) |-> rewrite_line(split_comment(lines[i]))]

rewrite_theorems(content) == join(map_lines(split(content, NL)), NL)

\* ---------------------------------------------------- labels and refs (4.5)
rewrite_labels_app(content) == re_sub(Pat("ref_app"), re_sub(Pat("label"), content))

rewrite_labels_simple(content) == re_sub(Pat("ref_simple"), re_sub(Pat("label"), content))

\* ------------------------------------------------------- the whole stage
\* app.py: title information is read before the framebox flattening
preprocess_latex(latex_content) ==
    rewrite_labels_app(rewrite_theorems(
        place_title_block(convert_framebox_parbox(latex_content),
                          build_title_block(extract_title_info(latex_content)))))

\* simple_converter.py: title information is read after the framebox flattening
title_placed(flat) == place_title_block(flat, build_title_block(extract_title_info(flat)))

preprocess_latex_simple(content) ==
    rewrite_labels_simple(rewrite_theorems(title_placed(convert_framebox_parbox(content))))

\* ------------------------------------------------ beamer-frame flattener (4.8)
\* The loop of preprocess_beamer_frames works on a record w: inside_frame,
\* frame_title_set and output_lines, and the code and comment of the line.
BeamerStart ==
    [inside_frame |-> FALSE, frame_title_set |-> FALSE, output_lines |-> <<>>,
     code |-> <<>>, comment |-> <<>>]

\* if title: output_lines.append(section); frame_title_set = True
frame_heading(w, title) ==
    IF Len(title) > 0
    THEN [w EXCEPT !.output_lines = Append(@, Cmd("section") \o Braced(title)),
                   !.frame_title_set = TRUE]
    ELSE w

\* the if begin_match: block, m the match of the begin pattern
beamer_begin(w, m) ==
    IF m.start = 0 THEN w
    ELSE frame_heading([w EXCEPT !.inside_frame = TRUE, !.frame_title_set = FALSE,
                                 !.code = re_sub(Pat("begin_frame"), w.code)],
                       strip(begin_frame_title(w.code, m.start, m.end)))

\* (mutation of beamer_frametitle: a heading for every \frametitle)
beamer_frametitle_each(w, m) ==
    IF m.start = 0 THEN w
    ELSE [frame_heading(w, strip(Group1(w.code, m.start, m.end)))
          EXCEPT !.code = re_sub(Pat("frametitle"), w.code)]

\* the if title_match: block, m the match of the frametitle pattern
beamer_frametitle(w, m) ==
    IF m.start = 0 THEN w
    ELSE [(IF w.frame_title_set THEN w
           ELSE frame_heading(w, strip(Group1(w.code, m.start, m.end))))
          EXCEPT !.code = re_sub(Pat("frametitle"), w.code)]

\* the if inside_frame: block
beamer_inside(w) ==
    IF w.inside_frame THEN beamer_frametitle(w, re_search(Pat("frametitle"), w.code)) ELSE w

\* the if r'\end{frame}' in code: block
beamer_end(w) ==
    IF Contains(w.code, EndEnv("frame"))
    THEN [w EXCEPT !.code = str_replace(w.code, EndEnv("frame"), <<>>, -1),
                   !.inside_frame = FALSE, !.frame_title_set = FALSE]
    ELSE w

\* output_lines.append((code + comment).strip())
beamer_emit(w) == [w EXCEPT !.output_lines = Append(@, strip(w.code \o w.comment))]

beamer_code(w) == beamer_emit(beamer_end(beamer_inside(
                      beamer_begin(w, re_search(Pat("begin_frame"), w.code)))))

\* one line of the loop, sc the split line
beamer_line(st, sc) == beamer_code([st EXCEPT !.code = sc.code, !.comment = sc.comment])

RECURSIVE beamer_fold(_, _, _)
beamer_fold(st, lines, i) ==
    IF i > Len(lines) THEN st ELSE beamer_fold(beamer_line(st, split_comment(lines[i])), lines, i + 1)

preprocess_beamer_frames(latex_content) ==
    join(SelectSeq(beamer_fold(BeamerStart, split(latex_content, NL), 1).output_lines,
                   LAMBDA l : Len(l) > 0),
         NL)

\* ---------------------------------------------------- include resolver (4.6)
\* A path is a token sequence with "/" between its components.
\* os.path.join(base_dir, filename)
path_join(base_dir, filename) ==
    IF Len(filename) > 0 /\ filename[1] = "/" THEN filename
    ELSE IF Len(base_dir) = 0 \/ base_dir[Len(base_dir)] = "/" THEN base_dir \o filename
    ELSE base_dir \o <<"/">> \o filename

\* os.path.dirname(path)
RECURSIVE dirname(_)
dirname(path) ==
    IF Len(path) = 0 THEN <<>>
    ELSE IF path[Len(path)] = "/"
         THEN (IF Len(path) = 1 THEN <<"/">> ELSE SubSeq(path, 1, Len(path) - 1))
    ELSE dirname(SubSeq(path, 1, Len(path) - 1))

\* filename.endswith('.tex')
ends_with_tex(filename) == Len(filename) > 0 /\ filename[Len(filename)] = ".tex"

\* The working directory of a conversion and the files that may lie in it.
WorkDir == <<"R">>
PathA == <<"R", "/", "a", ".tex">>
PathC == <<"R", "/", "c", ".tex">>
PathSubA == <<"R", "/", "sub", "/", "a", ".tex">>
PathSubB == <<"R", "/", "sub", "/", "b", ".tex">>
AllPaths == {PathA, PathC, PathSubA, PathSubB}

\* files that include themselves: loop.tex directly, p.tex through q.tex
PathLoop == <<"R", "/", "loop", ".tex">>
PathP == <<"R", "/", "p", ".tex">>
PathQ == <<"R", "/", "q", ".tex">>

\* f.read() of an include file
FileContent(path) ==
    CASE path = PathA    -> <<"A1">>
      [] path = PathSubA -> <<"SA1", NL, "SA2">>
      [] path = PathSubB -> <<"B1", NL>> \o Cmd("input") \o Braced(<<"a">>) \o <<SP, "B2">>
      [] path = PathC    -> Cmd("input") \o Braced(<<"sub", "/", "b", ".tex">>)
      [] path = PathLoop -> <<"L1", NL>> \o Cmd("input") \o Braced(<<"loop">>)
      [] path = PathP    -> Cmd("include") \o Braced(<<"q">>)
      [] path = PathQ    -> <<"Q1", NL>> \o Cmd("input") \o Braced(<<"p", ".tex">>)
      [] OTHER           -> <<>>

\* the filename of the directive, '.tex' appended when absent
include_filename(filename) ==
    IF ends_with_tex(filename) THEN filename ELSE filename \o <<".tex">>

\* the path tried, and the second try with '.tex' appended
path_or_tex(include_path, filename, base_dir, exist) ==
    IF include_path \notin exist /\ ~ends_with_tex(filename)
    THEN path_join(base_dir, filename \o <<".tex">>)
    ELSE include_path

include_path_of(filename, base_dir, exist) ==
    path_or_tex(path_join(base_dir, filename), filename, base_dir, exist)

\* (mutation of include_dir: included files are resolved against the caller's
\* directory)
include_dir_of_caller(include_path, base_dir) == base_dir

\* the directory the includes of an included file are resolved against
include_dir(include_path, base_dir) == dirname(include_path)

RECURSIVE resolve_includes(_, _, _)
\* if os.path.exists(include_path): the resolved content, else the line
included_or_line(line, include_path, base_dir, exist) ==
    IF include_path \in exist
    THEN resolve_includes(FileContent(include_path), include_dir(include_path, base_dir),
                          exist)
    ELSE line

\* one line of the loop, m the match of the include pattern
resolve_match(line, m, base_dir, exist) ==
    IF m.start = 0 THEN line
    ELSE included_or_line(line,
                          include_path_of(include_filename(Group1(line, m.start, m.end)),
                                          base_dir, exist),
                          base_dir, exist)

resolve_line(line, base_dir, exist) ==
    resolve_match(line, re_search(Pat("include"), line), base_dir, exist)

resolve_lines(lines, base_dir, exist) ==
    [i \in 1..Len(lines) |-> resolve_line(lines[i], base_dir, exist)]

resolve_includes(latex_content, base_dir, exist) ==
    join(resolve_lines(split(latex_content, NL), base_dir, exist), NL)

\* ------------------------------------------------------ TikZ renderer (4.7)
ToolSets == [pdflatex : BOOLEAN, pdftoppm : BOOLEAN]
AllTools == [pdflatex |-> TRUE, pdftoppm |-> TRUE]

\* (mutation of tikz_tools_available: one of the two tools is enough)
tikz_tools_either(t) == t.pdflatex \/ t.pdftoppm

\* shutil.which('pdflatex') is not None and shutil.which('pdftoppm') is not None
tikz_tools_available(t) == t.pdflatex /\ t.pdftoppm

\* the message of the exception simple_converter.preprocess_tikz raises
MissingToolsError ==
    <<"TikZ", "detected", "but", "pdflatex", "or", "pdftoppm", "is", "not", "installed">>

TkIdle ==
    [pc |-> "idle", impl |-> "none", content |-> <<>>, matches |-> <<>>, idx |-> 0,
     new_parts |-> <<>>, last_idx |-> 1, png_paths |-> <<>>, ret_text |-> <<>>,
     error |-> <<>>]

\* the state of a call preprocess_tikz(content, work_dir, ...) at its first line
TkCall(caller, content) == [TkIdle EXCEPT !.pc = "call", !.impl = caller, !.content = content]

\* no conversion request is running
CvIdle ==
    [entry |-> "none", pc |-> "idle", route |-> "none", is_beamer |-> FALSE,
     processed |-> <<>>, tikz_imgs |-> <<>>, copied |-> <<>>, stages |-> <<>>,
     error |-> <<>>]

NoFiles == <<>>

IdleTikz ==
    /\ tools = AllTools
    /\ tk = TkIdle
    /\ calls = <<>>
    /\ cv = CvIdle
    /\ disk = NoFiles

\* no process_latex_zip call is running
BatchIdle ==
    [pc |-> "idle", walk |-> <<>>, latex_files |-> <<>>, i |-> 0, successes |-> 0,
     errors |-> <<>>, attempted |-> <<>>, out_dir |-> {}, error |-> <<>>]

\* no preprocess_beamer_frames call is running
BeamerIdle == [pc |-> "idle", lines |-> <<>>, i |-> 0, st |-> <<>>]

IdleCalls ==
    /\ batch = BatchIdle
    /\ jobs = <<>>
    /\ shared = NoFiles
    /\ bm = BeamerIdle
    /\ stack = <<>>
    /\ order = TableOrder

\* the graphicx package is loaded: after the \documentclass line, else on top
ensure_graphicx(content) ==
    IF Contains(content, Cmd("usepackage") \o Braced(<<"graphicx">>)) THEN content
    ELSE IF Contains(content, Cmd("documentclass"))
         THEN re_sub_first(Pat("documentclass"), content)
    ELSE Cmd("usepackage") \o Braced(<<"graphicx">>) \o <<NL>> \o content

\* (mutation of png_name_of: pictures are numbered by the count of rendered
\* pictures, not by the position of the block)
png_name_by_success(idx, png_paths) == <<"tikz_", ToString(Len(png_paths) + 1), ".png">>

\* png_name = f"tikz_{idx}.png"
png_name_of(idx, png_paths) == <<"tikz_", ToString(idx), ".png">>

\* f"\\begin{{center}}\\includegraphics{{{png_name}}}\\end{{center}}"
image_reference(png_name) ==
    BeginEnv("center") \o Cmd("includegraphics") \o Braced(png_name) \o EndEnv("center")

\* the next iteration of for idx, match in enumerate(matches, start=1), or the
\* end of the loop
tikz_advance(t) ==
    IF t.idx < Len(t.matches) THEN [t EXCEPT !.idx = t.idx + 1, !.pc = "compile"]
    ELSE [t EXCEPT !.pc = "finish"]

\* (mutation of tikz_skip: a failed block is also passed over in the text)
tikz_skip_dropping(t) ==
    tikz_advance([t EXCEPT !.last_idx = t.matches[t.idx].end + 1])

\* continue after a failed compile or rasterize: nothing is spliced
tikz_skip(t) == tikz_advance(t)

\* the block was rendered: copy the picture, splice the reference
tikz_splice(t) ==
    tikz_advance(
        [t EXCEPT !.png_paths = Append(@, path_join(WorkDir, png_name_of(t.idx, t.png_paths))),
                  !.new_parts = @ \o <<SubSeq(t.content, t.last_idx,
                                              t.matches[t.idx].start - 1),
                                      image_reference(png_name_of(t.idx, t.png_paths))>>,
                  !.last_idx = t.matches[t.idx].end + 1])

RECURSIVE concat(_)
concat(parts) == IF Len(parts) = 0 THEN <<>> ELSE parts[1] \o concat(Tail(parts))

\* if not matches: return content, []
tikz_found(t) ==
    IF Len(t.matches) = 0 THEN [t EXCEPT !.pc = "returned", !.ret_text = t.content]
    ELSE [t EXCEPT !.pc = "compile", !.idx = 1]

\* matches = list(tikz_pattern.finditer(content))
tikz_search(t) == tikz_found([t EXCEPT !.matches = finditer(Pat("tikz"), t.content)])

\* the tool check: app.py returns its argument, simple_converter.py raises
tikz_enter(t, available) ==
    IF ~available
    THEN IF t.impl = "app"
         THEN [t EXCEPT !.pc = "returned", !.ret_text = t.content]
         ELSE [t EXCEPT !.pc = "raised", !.error = MissingToolsError]
    ELSE tikz_search([t EXCEPT !.content = ensure_graphicx(t.content)])

\* lines 127-152 of app.py, 108-131 of simple_converter.py: the tool check, the
\* graphicx line, the search for the blocks
TikzEnter ==
    /\ tk.pc = "call"
    /\ tk' = tikz_enter(tk, tikz_tools_available(tools))
    /\ UNCHANGED <<tools, calls>>

\* subprocess.run(pdflatex_cmd) for block idx; a non-zero exit skips the block
TikzCompile ==
    /\ tk.pc = "compile"
    /\ \E rc \in {0, 1} :
        /\ calls' = Append(calls, [tool |-> "pdflatex", to |-> "pdf", idx |-> tk.idx, rc |-> rc])
        /\ tk' = IF rc # 0 THEN tikz_skip(tk) ELSE [tk EXCEPT !.pc = "rasterize"]
    /\ UNCHANGED tools

\* subprocess.run(ppm_cmd) for block idx; on success the picture is copied and
\* the reference spliced in
TikzRasterize ==
    /\ tk.pc = "rasterize"
    /\ \E rc \in {0, 1} :
        /\ calls' = Append(calls, [tool |-> "pdftoppm", to |-> "png", idx |-> tk.idx, rc |-> rc])
        /\ tk' = IF rc # 0 THEN tikz_skip(tk) ELSE tikz_splice(tk)
    /\ UNCHANGED tools

\* after the loop: the rest of the text, and the return
TikzReturn ==
    /\ tk.pc = "finish"
    /\ tk' = [tk EXCEPT !.pc = "returned",
                        !.ret_text = concat(Append(tk.new_parts,
                                                   Tail_(tk.content, tk.last_idx)))]
    /\ UNCHANGED <<tools, calls>>

\* ------------------------------------------------ HTML post-processor (4.9)
\* the <style> blocks the two post-processors inject
accessibility_css == <<"<style>", "accessibility", "</style>">>
custom_css == <<"<style>", "custom", "</style>">>

strong_label(display) == <<"<strong>", display, ":", "</strong>">>

\* blockquote_pattern.sub(...) for the keyword of e
tag_blockquote(content, e) == re_sub(EnvPat("blockquote", e), content)

\* one round of the keyword loop of enhance_html_accessibility: the paragraph
\* attribute, then the label class, then the blockquote class
tag_keyword(content, e) ==
    tag_blockquote(
        str_replace(
            str_replace(content, <<"<p>">> \o strong_label(e[2]),
                        <<"<p data-theorem=", e[1], ">">> \o strong_label(e[2]), -1),
            strong_label(e[2]),
            <<"<strong class=theorem-label>", e[2], ":", "</strong>">>, -1),
        e)

\* (the test on Len(content) has a round evaluated before the next one starts)
RECURSIVE tag_keywords(_, _)
tag_keywords(content, k) ==
    IF k > Len(theorem_envs) \/ Len(content) < 0 THEN content
    ELSE tag_keywords(tag_keyword(content, theorem_envs[k]), k + 1)

RECURSIVE tag_blockquotes(_, _)
tag_blockquotes(content, k) ==
    IF k > Len(theorem_envs) \/ Len(content) < 0 THEN content
    ELSE tag_blockquotes(tag_blockquote(content, theorem_envs[k]), k + 1)

add_lang(content) == re_sub_first(Pat("html_lang"), content)

\* app.py: a page without </head> gets a head of its own in front
insert_accessibility_css(content) ==
    IF Contains(content, <<"</head>">>)
    THEN str_replace(content, <<"</head>">>, accessibility_css \o <<"</head>">>, -1)
    ELSE <<"<head>">> \o accessibility_css \o <<"</head>">> \o content

\* simple_converter.py: a page without </head> is left without the stylesheet
insert_custom_css(content) ==
    IF Contains(content, <<"</head>">>)
    THEN str_replace(content, <<"</head>">>, custom_css \o <<"</head>">>, -1)
    ELSE content

\* app.py: the text enhance_html_accessibility writes back
enhance_html_accessibility(content) ==
    add_lang(insert_accessibility_css(tag_keywords(content, 1)))

\* simple_converter.py: the text post_process_html writes back
post_process_html(content) == add_lang(insert_custom_css(tag_blockquotes(content, 1)))

\* ------------------------------------------------------------ input texts
\* Inputs are assembled from pieces, each a token sequence of the source text.
FragText(f, k) ==
    CASE f = "BEGIN"     -> BeginEnv(theorem_envs[k][1])
      [] f = "END"       -> EndEnv(theorem_envs[k][1])
      [] f = "BEGIN2"    -> BeginEnv(theorem_envs[(k % Len(theorem_envs)) + 1][1])
      [] f = "END2"      -> EndEnv(theorem_envs[(k % Len(theorem_envs)) + 1][1])
      [] f = "LB"        -> <<"[">>
      [] f = "FBOX"      -> <<BS, "framebox", "{", BS, "parbox", "{", "w", "}", "{">>
      [] f = "NEST"      -> <<"{", "b", "}">>
      [] f = "BOXEND"    -> <<"}", "}">>
      [] f = "TITLE"     -> <<"[", "T", "]">>
      [] f = "PCT"       -> <<"%">>
      [] f = "BSL"       -> <<BS>>
      [] f = "NL"        -> <<NL>>
      [] f = "X"         -> <<"x">>
      [] f = "LABEL"     -> Cmd("label") \o Braced(<<"a">>)
      [] f = "REF"       -> Cmd("ref") \o Braced(<<"b">>)
      [] f = "REF_OPEN"  -> Cmd("ref") \o <<"{">>
      [] f = "CLOSE"     -> <<"}">>
      [] f = "MAKETITLE" -> Cmd("maketitle")
      [] f = "TITLECMD"  -> Cmd("title") \o Braced(<<"T">>)
      [] f = "AUTHOR"    -> Cmd("author") \o Braced(<<"A">>)
      [] f = "BEGINDOC"  -> BeginEnv("document")
      [] f = "BLOCK"     -> BeginEnv("tikzpicture") \o <<"d">> \o EndEnv("tikzpicture")
      [] f = "NESTED"    -> BeginEnv("tikzpicture") \o BeginEnv("tikzpicture") \o <<"d">>
                            \o EndEnv("tikzpicture") \o EndEnv("tikzpicture")
      [] f = "DOCCLASS"  -> Cmd("documentclass") \o Braced(<<"article">>) \o <<NL>>
      [] f = "GRAPHICX"  -> Cmd("usepackage") \o Braced(<<"graphicx">>)
      [] f = "GRAPHICX_NL" -> Cmd("usepackage") \o Braced(<<"graphicx">>) \o <<NL>>
      [] f = "BEAMER"    -> Cmd("documentclass") \o Braced(<<"beamer">>) \o <<NL>>
      [] f = "SECTION"   -> Cmd("section") \o Braced(<<"S">>)
      [] f = "FRAME"     -> BeginEnv("frame") \o Braced(<<"T">>) \o <<"x">> \o EndEnv("frame")
      [] f = "FBEGIN"    -> BeginEnv("frame")
      [] f = "FTITLE"    -> Braced(<<"T">>)
      [] f = "FBLANK"    -> Braced(<<SP>>)
      [] f = "FRAMETITLE" -> Cmd("frametitle") \o Braced(<<"U">>)
      [] f = "FEND"      -> EndEnv("frame")
      [] f = "IN_A"      -> Cmd("input") \o Braced(<<"a">>)
      [] f = "IN_ATEX"   -> Cmd("input") \o Braced(<<"a", ".tex">>)
      [] f = "INC_SUBB"  -> Cmd("include") \o Braced(<<"sub", "/", "b">>)
      [] f = "INC_C"     -> Cmd("include") \o Braced(<<"c">>)
      [] f = "IN_LOOP"   -> Cmd("input") \o Braced(<<"loop">>)
      [] f = "IN_P"      -> Cmd("input") \o Braced(<<"p">>)

RECURSIVE Flatten(_, _)
Flatten(fs, k) == IF Len(fs) = 0 THEN <<>> ELSE FragText(fs[1], k) \o Flatten(Tail(fs), k)

Input == Flatten(frags, kw)

SeqsUpTo(S, n) == UNION {[1..m -> S] : m \in 0..n}

FragsThm == {"BEGIN", "END", "TITLE", "PCT", "BSL", "NL"}
FragsLabel == {"LABEL", "REF", "REF_OPEN", "CLOSE", "PCT", "X"}
FragsTitle == {"TITLECMD", "AUTHOR", "MAKETITLE", "BEGINDOC", "X", "NL"}

InitPre(alphabet, kws) ==
    /\ frags \in SeqsUpTo(alphabet, MaxFrags)
    /\ kw \in kws
    /\ impl = "none"
    /\ pc = "ready"
    /\ out = <<>>
    /\ files = {}
    /\ IdleTikz
    /\ IdleCalls

InitThm == InitPre(FragsThm, 1..Len(theorem_envs))
InitLabel == InitPre(FragsLabel, {1})
InitTitle == InitPre(FragsTitle, {1})

PreprocessApp ==
    /\ pc = "ready"
    /\ out' = preprocess_latex(Input)
    /\ impl' = "app"
    /\ pc' = "done"
    /\ UNCHANGED <<frags, kw, files, tikzVars, convVars, callVars>>

PreprocessSimple ==
    /\ pc = "ready"
    /\ out' = preprocess_latex_simple(Input)
    /\ impl' = "simple"
    /\ pc' = "done"
    /\ UNCHANGED <<frags, kw, files, tikzVars, convVars, callVars>>

NextPre == PreprocessApp \/ PreprocessSimple

SpecThm == InitThm /\ [][NextPre]_vars
SpecLabel == InitLabel /\ [][NextPre]_vars
SpecTitle == InitTitle /\ [][NextPre]_vars

\* ===================================================== properties, SpecThm
\* The quote-block opening and close the theorem rewrite is to produce, token
\* by token.
QuoteOpen(display, titled) ==
    <<BS, "begin", "{", "quote", "}", NL, BS, "textbf", "{", display>>
    \o (IF titled THEN <<SP, "(", "T", ")">> ELSE <<>>)
    \o <<":", "}", SP>>

QuoteClose == <<BS, "end", "{", "quote", "}">>

\* What the pieces of an input are to become, read piece by piece: a begin
\* piece outside a comment becomes the opening (titled when the bracketed title
\* follows it), an end piece the close, a percent not preceded by a backslash
\* starts a comment that lasts to the end of the line and is copied.
RECURSIVE ExpectedThm(_, _, _, _)
ExpectedThm(fs, k, i, inComment) ==
    IF i > Len(fs) THEN <<>>
    ELSE LET f == fs[i]
             D == theorem_envs[k][2]
         IN  CASE f = "NL" -> <<NL>> \o ExpectedThm(fs, k, i + 1, FALSE)
               [] f # "NL" /\ inComment -> FragText(f, k) \o ExpectedThm(fs, k, i + 1, TRUE)
               [] f = "PCT" /\ ~inComment ->
                     <<"%">> \o ExpectedThm(fs, k, i + 1, ~(i > 1 /\ fs[i - 1] = "BSL"))
               [] f = "BEGIN" /\ ~inComment ->
                     IF i < Len(fs) /\ fs[i + 1] = "TITLE"
                     THEN QuoteOpen(D, TRUE) \o ExpectedThm(fs, k, i + 2, FALSE)
                     ELSE QuoteOpen(D, FALSE) \o ExpectedThm(fs, k, i + 1, FALSE)
               [] f = "END" /\ ~inComment -> QuoteClose \o ExpectedThm(fs, k, i + 1, FALSE)
               [] OTHER -> FragText(f, k) \o ExpectedThm(fs, k, i + 1, FALSE)

\* C3: for each of the 9 keywords, every \begin{K}[T] in the code part of a
\* line becomes the quote-block opening with the bold label "D (T):" and one
\* blank, every \begin{K} without a title the opening with the label "D:" and
\* one blank, and every \end{K} the quote-block close, each on its own (a pair
\* split over two lines too); the comment part of the line is copied.
C3_TheoremRewrite == pc = "done" => out = ExpectedThm(frags, kw, 1, FALSE)

\* a titled begin on one line, its end on the next, for the last keyword
C3_Witness ==
    /\ pc = "done"
    /\ kw = 9
    /\ frags = <<"BEGIN", "TITLE", "NL", "END">> \/ frags = <<"BEGIN", "NL", "END">>
    /\ Contains(out, <<"Proof">>)
    /\ Contains(out, QuoteClose)

\* =================================================== properties, SpecLabel
\* the comment parts of the lines of a text that have one
CommentsOf(text) ==
    LET ls == split(text, NL)
        cs == [i \in 1..Len(ls) |-> split_comment(ls[i]).comment]
    IN  SelectSeq(cs, LAMBDA c : Len(c) > 0)

\* C2: the text from the first unescaped % of a line to the end of that line
\* appears unchanged in the output of preprocess_latex and of
\* preprocess_latex_simple, whatever markup (\label, \ref, \maketitle, theorem
\* tokens) it holds.
C2_CommentsUnchanged == pc = "done" => CommentsOf(out) = CommentsOf(Input)

WholeCommands == {"LABEL", "REF", "PCT", "X"}

RECURSIVE ExpectedLabels(_, _)
ExpectedLabels(fs, i) ==
    IF i > Len(fs) THEN <<>>
    ELSE (CASE fs[i] = "LABEL" -> <<>>
            [] fs[i] = "REF"   -> <<BS, "textit", "{", "b", "}">>
            [] OTHER           -> FragText(fs[i], 1))
         \o ExpectedLabels(fs, i + 1)

\* C5: in both copies of the stage every \label{name} is deleted and every
\* \ref{name} becomes \textit{name}, the italic text holding the reference name.
C5_LabelsDeletedRefsItalic ==
    (pc = "done" /\ \A i \in 1..Len(frags) : frags[i] \in WholeCommands)
        => out = ExpectedLabels(frags, 1)

\* the label/reference step of the copy that ran
LabelStep(text) ==
    IF impl = "app" THEN rewrite_labels_app(text) ELSE rewrite_labels_simple(text)

\* C6: the label/reference step is idempotent: out is the result of one pass,
\* and a second pass over it changes nothing.
C6_LabelStepIdempotent == pc = "done" => LabelStep(out) = out

\* =================================================== properties, SpecTitle
HasFrag(fs, f) == \E i \in 1..Len(fs) : fs[i] = f

FirstFrag(fs, f) == CHOOSE i \in 1..Len(fs) : fs[i] = f /\ \A j \in 1..(i - 1) : fs[j] # f

\* the centered block for the title T and the author A, token by token
ExpectedBlock(hasT, hasA) ==
    <<BS, "begin", "{", "center", "}", NL>>
    \o (IF hasT THEN <<"{", BS, "LARGE", SP, "T", BS, "par", "}", NL>> ELSE <<>>)
    \o (IF hasA THEN <<BS, "vspace", "{", "0.5em", "}", NL,
                       "{", BS, "large", SP, "A", BS, "par", "}", NL>> ELSE <<>>)
    \o <<BS, "end", "{", "center", "}">>

\* the block placed at exactly one position
ExpectedTitle(fs) ==
    LET hasT  == HasFrag(fs, "TITLECMD")
        hasA  == HasFrag(fs, "AUTHOR")
        block == ExpectedBlock(hasT, hasA)
    IN  IF ~hasT /\ ~hasA THEN Flatten(fs, 1)
        ELSE IF HasFrag(fs, "MAKETITLE")
             THEN LET i == FirstFrag(fs, "MAKETITLE")
                  IN  Flatten(SubSeq(fs, 1, i - 1), 1) \o block
                      \o Flatten(SubSeq(fs, i + 1, Len(fs)), 1)
        ELSE IF HasFrag(fs, "BEGINDOC")
             THEN LET i == FirstFrag(fs, "BEGINDOC")
                  IN  Flatten(SubSeq(fs, 1, i), 1) \o <<NL>> \o block
                      \o Flatten(SubSeq(fs, i + 1, Len(fs)), 1)
        ELSE block \o <<NL>> \o Flatten(fs, 1)

\* C4: with a title, author or date present the title block is placed at
\* exactly one position: in place of the first \maketitle, else right after
\* the first \begin{document}, else in front of the document; with none of the
\* three present nothing is inserted.
C4_TitleBlockPlacedOnce == pc = "done" => out = ExpectedTitle(frags)

\* ================================================================ SpecInc
FragsInc == {"IN_A", "IN_ATEX", "INC_SUBB", "INC_C", "X", "NL", "PCT"}

InitInc ==
    /\ frags \in SeqsUpTo(FragsInc, MaxFrags)
    /\ files \in SUBSET AllPaths
    /\ kw = 1
    /\ impl = "none"
    /\ pc = "ready"
    /\ out = <<>>
    /\ IdleTikz
    /\ IdleCalls

ResolveIncludes ==
    /\ pc = "ready"
    /\ out' = resolve_includes(Input, WorkDir, files)
    /\ impl' = "app"
    /\ pc' = "done"
    /\ UNCHANGED <<frags, kw, files, tikzVars, convVars, callVars>>

NextInc == ResolveIncludes

SpecInc == InitInc /\ [][NextInc]_vars

\* ===================================================== properties, SpecInc
IsDirective(f) == f \in {"IN_A", "IN_ATEX", "INC_SUBB", "INC_C"}

\* the file a directive piece names, seen from the working directory
Target(f) ==
    CASE f \in {"IN_A", "IN_ATEX"} -> PathA
      [] f = "INC_SUBB"            -> PathSubB
      [] f = "INC_C"               -> PathC

\* The fully resolved content of each file, written out: sub/b.tex holds the
\* line "\input{a} B2", and its a is sub/a.tex, the one in its own directory;
\* c.tex holds "\input{sub/b.tex}".
\* rest is what stays of the line after the directive of sub/b.tex
ResolvedSubB(exist, rest) ==
    <<"B1", NL>>
    \o (IF PathSubA \in exist THEN <<"SA1", NL, "SA2">> \o rest
        ELSE <<BS, "input", "{", "a", "}", SP, "B2">>)

ResolvedFile(path, exist, rest) ==
    CASE path = PathA    -> <<"A1">>
      [] path = PathSubB -> ResolvedSubB(exist, rest)
      [] path = PathC    ->
            IF PathSubB \in exist THEN ResolvedSubB(exist, rest)
            ELSE <<BS, "input", "{", "sub", "/", "b", ".tex", "}">>

\* each directive on its own: one whose file exists gives way to the resolved
\* content, everything else on the line stays
RECURSIVE SplicedPerDirective(_, _)
SplicedPerDirective(fs, exist) ==
    IF Len(fs) = 0 THEN <<>>
    ELSE (IF IsDirective(fs[1]) /\ Target(fs[1]) \in exist
          THEN ResolvedFile(Target(fs[1]), exist, <<SP, "B2">>)
          ELSE FragText(fs[1], 1))
         \o SplicedPerDirective(Tail(fs), exist)

\* C7 as stated: the resolved content of an existing file is spliced in place
\* of the directive; a directive whose file is missing, and every line without
\* a directive, is kept.
C7_SplicedInPlaceOfDirective == pc = "done" => out = SplicedPerDirective(frags, files)

\* line by line: the first directive of a line decides for the whole line
ExpectedIncLine(lf, exist) ==
    LET ds == {i \in 1..Len(lf) : IsDirective(lf[i])}
    IN  IF ds = {} THEN Flatten(lf, 1)
        ELSE LET d == CHOOSE i \in ds : \A j \in ds : i <= j
             IN  IF Target(lf[d]) \in exist THEN ResolvedFile(Target(lf[d]), exist, <<>>)
                 ELSE Flatten(lf, 1)

ExpectedInc(fs, exist) ==
    LET ls == split(fs, "NL")
    IN  join([i \in 1..Len(ls) |-> ExpectedIncLine(ls[i], exist)], NL)

\* C7 as amended: a line whose first directive names an existing file is
\* replaced as a whole by that file's fully resolved content (the includes of
\* the file resolved against the file's own directory); a line whose first
\* directive names a missing file, and every line without a directive, is kept
\* unchanged and in order.
C7_LineReplacedByContent == pc = "done" => out = ExpectedInc(frags, files)

\* text before the directive is dropped, and the a of sub/b.tex is sub/a.tex
C7_Witness ==
    /\ pc = "done"
    /\ files = AllPaths
    /\ frags = <<"X", "INC_SUBB", "NL">>
    /\ out = <<"B1", NL, "SA1", NL, "SA2", NL>>

\* =============================================================== SpecTikz
FragsTikz == {"BLOCK", "NESTED", "X", "DOCCLASS", "GRAPHICX"}

InitTikz ==
    /\ frags \in SeqsUpTo(FragsTikz, MaxTikzFrags)
    /\ kw = 1
    /\ files = {}
    /\ pc = "ready"
    /\ out = <<>>
    /\ tools \in ToolSets
    /\ impl \in {"app", "simple"}
    /\ tk = TkCall(impl, Input)
    /\ calls = <<>>
    /\ cv = CvIdle
    /\ disk = NoFiles
    /\ IdleCalls

textVars == <<frags, kw, impl, pc, out, files>>

NextTikz ==
    \/ TikzEnter /\ UNCHANGED <<textVars, callVars, convVars>>
    \/ TikzCompile /\ UNCHANGED <<textVars, callVars, convVars>>
    \/ TikzRasterize /\ UNCHANGED <<textVars, callVars, convVars>>
    \/ TikzReturn /\ UNCHANGED <<textVars, callVars, convVars>>

SpecTikz == InitTikz /\ [][NextTikz]_vars

\* ==================================================== properties, SpecTikz
\* block i was compiled and rasterized with exit code 0
Rendered(i) == \E j \in 1..Len(calls) : calls[j] = [tool |-> "pdftoppm", to |-> "png", idx |-> i, rc |-> 0]

IsBlock(f) == f \in {"BLOCK", "NESTED"}

NumBlocks(fs) == Cardinality({i \in 1..Len(fs) : IsBlock(fs[i])})

\* the pieces with the graphicx line where preprocess_tikz puts it
WithGraphicx(fs) ==
    IF HasFrag(fs, "GRAPHICX") THEN fs
    ELSE IF HasFrag(fs, "DOCCLASS")
         THEN LET i == FirstFrag(fs, "DOCCLASS")
              IN  SubSeq(fs, 1, i) \o <<"GRAPHICX_NL">> \o SubSeq(fs, i + 1, Len(fs))
    ELSE <<"GRAPHICX_NL">> \o fs

\* the centered image reference for picture i, token by token
ExpectedRef(i) ==
    <<BS, "begin", "{", "center", "}", BS, "includegraphics", "{",
      "tikz_", ToString(i), ".png", "}", BS, "end", "{", "center", "}">>

\* piece by piece, n blocks lying before piece i: a rendered block gives way to
\* its reference (the block of a nested piece ends at the first \end, the second
\* \end stays), every other piece is copied
RECURSIVE ExpectedBlocks(_, _, _)
ExpectedBlocks(fs, i, n) ==
    IF i > Len(fs) THEN <<>>
    ELSE IF IsBlock(fs[i])
         THEN (IF ~Rendered(n + 1) THEN FragText(fs[i], 1)
               ELSE IF fs[i] = "NESTED" THEN ExpectedRef(n + 1) \o EndEnv("tikzpicture")
               ELSE ExpectedRef(n + 1))
              \o ExpectedBlocks(fs, i + 1, n + 1)
    ELSE FragText(fs[i], 1) \o ExpectedBlocks(fs, i + 1, n)

TikzDone == tk.pc = "returned" /\ tikz_tools_available(tools)

\* C8: with both tools present, a block whose compile or rasterize fails stays
\* in the output as it was and where it was, every block that renders is
\* replaced by its image reference, and the text outside the blocks is kept in
\* order, for every pattern of failing blocks.
C8_FailedBlocksStayInPlace ==
    TikzDone => tk.ret_text = ExpectedBlocks(WithGraphicx(frags), 1, 0)

\* three blocks: the first fails to compile, the last fails to rasterize
C8_Witness ==
    /\ TikzDone
    /\ frags = <<"BLOCK", "BLOCK", "X", "BLOCK">>
    /\ ~Rendered(1) /\ Rendered(2) /\ ~Rendered(3)
    /\ Len(calls) = 4

\* the indexes of the rendered blocks, in source order
RECURSIVE RenderedUpTo(_)
RenderedUpTo(n) ==
    IF n = 0 THEN <<>>
    ELSE RenderedUpTo(n - 1) \o (IF Rendered(n) THEN <<n>> ELSE <<>>)

\* the file names the \includegraphics of a text name, in order
RECURSIVE IncludedNames(_)
IncludedNames(s) ==
    LET i == Find(s, <<BS, "includegraphics", "{">>, 1)
    IN  IF i = 0 THEN <<>>
        ELSE <<SubSeq(s, i + 3, ClassUntil(s, i + 2, "}", 0) - 1)>>
             \o IncludedNames(Tail_(s, i + 3))

\* C9: one image path is returned per replaced block, in source order: with k
\* of the n blocks rendered the list has k paths, the text has k image
\* references, and the reference for the i-th block of the source names
\* tikz_<i>.png, the file name of the path returned for it.
C9_OnePathPerRenderedBlock ==
    TikzDone =>
        LET ok == RenderedUpTo(NumBlocks(frags))
        IN  /\ tk.png_paths = [j \in 1..Len(ok) |-> <<"R", "/", "tikz_", ToString(ok[j]), ".png">>]
            /\ IncludedNames(tk.ret_text) = [j \in 1..Len(ok) |-> <<"tikz_", ToString(ok[j]), ".png">>]

\* three blocks of which the second and third render
C9_Witness ==
    /\ TikzDone
    /\ NumBlocks(frags) = 3
    /\ ~Rendered(1) /\ Rendered(2) /\ Rendered(3)
    /\ Len(tk.png_paths) = 2

\* ================================================ conversion requests (4.1-4.4)
\* the uploaded document, its output page and the files written on the way
PathDoc == <<"R", "/", "doc", ".tex">>
HtmlPath == "doc.html"
IndexPath == "index.html"
OtherPage == "other.html"
TempTex == "temp_processed.tex"
HtmlNames == {HtmlPath, IndexPath, OtherPage}

WriteFile(d, name, content) == (name :> content) @@ d
RemoveFile(d, name) == [n \in DOMAIN d \ {name} |-> d[n]]

\* the pages the external converter and the site generator may write
\* (a root element with or without a lang attribute, a head, and a body that is
\* a plain paragraph or a quoted theorem paragraph)
HtmlDocs ==
    {<<"<html">> \o page.attrs \o <<">", "<head>", "</head>">> \o page.body :
        page \in {[attrs |-> <<>>, body |-> <<"<p>", "x">>],
                  [attrs |-> <<SP, "lang=", "fr">>, body |-> <<"<p>", "x">>],
                  [attrs |-> <<>>,
                   body |-> <<"<blockquote>", NL, "<p>", "<strong>", "Theorem", ":",
                              "</strong>", SP, "x">>]}}

is_beamer(content) == re_search(Pat("beamer_class"), content) # NoMatch
is_structural(content) == re_search(Pat("structural"), content) # NoMatch

\* The post-processors are functions of the page alone.  The pages a conversion
\* can hold are those of the converter and the enhanced ones; the results for
\* them are tabulated.
Pages == HtmlDocs \cup {enhance_html_accessibility(h) : h \in HtmlDocs}
Enhanced == [h \in Pages |-> enhance_html_accessibility(h)]
PostProcessed == [h \in HtmlDocs |-> post_process_html(h)]

\* enhance_html_accessibility(path): a file that cannot be read is left alone
enhance_file(d, name) ==
    IF name \in DOMAIN d THEN WriteFile(d, name, Enhanced[d[name]]) ELSE d

\* the os.walk loop of create_quarto_website: every HTML file of the output
\* directory is enhanced
enhance_pages(d) ==
    [n \in DOMAIN d |-> IF n \in HtmlNames THEN Enhanced[d[n]] ELSE d[n]]

\* the message prefixes each entry point wraps around an error of the conversion
ErrorPrefix(entry) ==
    CASE entry = "single" -> <<"Failed to process LaTeX file", "Error converting">>
      [] entry = "zip"    -> <<"Error converting">>
      [] OTHER            -> <<"Conversion failed">>

Failed(c, message) == [c EXCEPT !.pc = "failed", !.error = message]
Stage(c, names) == [c EXCEPT !.stages = @ \o names]

\* the single-file conversion of convert_latex_to_html after a failed site build
StartFallbackRaising ==
    /\ cv' = Failed(cv, ErrorPrefix(cv.entry) \o <<"Conversion error", "Quarto render failed">>)
    /\ tk' = tk

StartFallback ==
    /\ cv' = Stage([cv EXCEPT !.pc = "tikz", !.route = "fallback"],
                   <<"resolve_includes", "preprocess_tikz">>)
    /\ tk' = TkCall("app", resolve_includes(Input, WorkDir, files))

\* convert_latex_to_html up to its first external call, called by
\* process_single_latex_file (after its own check of the path) or by the loop of
\* process_latex_zip
SingleStart ==
    /\ cv.entry \in {"single", "zip"} /\ cv.pc = "start"
    /\ IF PathDoc \notin files
       THEN /\ cv' = Failed(cv, IF cv.entry = "single"
                                THEN <<"Failed to process LaTeX file", "File not found">>
                                ELSE ErrorPrefix("zip")
                                     \o <<"File error", "LaTeX file not found">>)
            /\ tk' = tk
       ELSE IF Len(strip(Input)) = 0
       THEN /\ cv' = Failed(cv, ErrorPrefix(cv.entry)
                                \o <<"Conversion error", "LaTeX file is empty">>)
            /\ tk' = tk
       ELSE IF is_beamer(Input)
       THEN /\ cv' = Stage([cv EXCEPT !.pc = "pandoc", !.route = "beamer", !.is_beamer = TRUE,
                                      !.processed =
                                          preprocess_latex(preprocess_beamer_frames(Input))],
                           <<"preprocess_beamer_frames", "preprocess_latex">>)
            /\ tk' = tk
       ELSE IF is_structural(Input)
       THEN /\ cv' = Stage([cv EXCEPT !.pc = "tikz", !.route = "site"],
                           <<"resolve_includes", "preprocess_tikz">>)
            /\ tk' = TkCall("app", resolve_includes(Input, WorkDir, files))
       ELSE /\ cv' = Stage([cv EXCEPT !.pc = "tikz", !.route = "plain"], <<"preprocess_tikz">>)
            /\ tk' = TkCall("app", Input)
    /\ UNCHANGED <<textVars, callVars, tools, calls, disk>>

\* convert_latex_simple up to its call of preprocess_tikz
StandaloneStart ==
    /\ cv.entry = "standalone" /\ cv.pc = "start"
    /\ IF PathDoc \notin files
       THEN /\ cv' = Failed(cv, ErrorPrefix("standalone") \o <<"No such file or directory">>)
            /\ tk' = tk
       ELSE IF is_beamer(Input)
       THEN /\ cv' = Stage([cv EXCEPT !.pc = "tikz", !.route = "simple", !.is_beamer = TRUE],
                           <<"preprocess_beamer_frames", "preprocess_tikz">>)
            /\ tk' = TkCall("simple", preprocess_beamer_frames(Input))
       ELSE /\ cv' = Stage([cv EXCEPT !.pc = "tikz", !.route = "simple"], <<"preprocess_tikz">>)
            /\ tk' = TkCall("simple", Input)
    /\ UNCHANGED <<textVars, callVars, tools, calls, disk>>

\* site_title = title_info.get('title') or 'LaTeX Document'
site_title(title) == IF Len(title) > 0 THEN title ELSE <<"LaTeX Document">>

\* create_quarto_website up to its first external call: the files it writes
site_files(d, content, processed) ==
    WriteFile(WriteFile(WriteFile(d, "_quarto.yml",
                                  site_title(field_of(Pat("title"), content))),
                        "styles.css", <<"styles">>),
              "temp_full.tex", processed)

\* the preprocessing stage of the entry point
preprocess_for(entry, content) ==
    IF entry = "standalone" THEN preprocess_latex_simple(content)
    ELSE preprocess_latex(content)

\* after preprocess_tikz returned: the site build writes its files, every other
\* route goes to the converter
AfterTikz(c) ==
    /\ cv' = [c EXCEPT !.pc = IF c.route = "site" THEN "markdown" ELSE "pandoc"]
    /\ disk' = IF c.route = "site" THEN site_files(disk, tk.ret_text, c.processed) ELSE disk

\* the caller of preprocess_tikz goes on with its result, or with its exception
ResumeAfterTikz ==
    /\ cv.pc = "tikz" /\ tk.pc \in {"returned", "raised"}
    /\ IF tk.pc = "raised"
       THEN /\ cv' = Failed(cv, ErrorPrefix(cv.entry) \o tk.error)
            /\ disk' = disk
       ELSE AfterTikz(Stage([cv EXCEPT !.processed = preprocess_for(cv.entry, tk.ret_text),
                                       !.tikz_imgs = tk.png_paths],
                            <<"preprocess_latex">>))
    /\ tk' = TkIdle
    /\ UNCHANGED <<textVars, callVars, tools, calls>>

\* create_quarto_website: pandoc to markdown, run with check=True
PandocToMarkdown ==
    /\ cv.pc = "markdown"
    /\ \E rc \in {0, 1} :
         /\ calls' = Append(calls, [tool |-> "pandoc", to |-> "markdown", idx |-> 0, rc |-> rc])
         /\ IF rc # 0
            THEN /\ StartFallback
                 /\ disk' = disk
            ELSE /\ cv' = Stage([cv EXCEPT !.pc = "quarto"], <<"pandoc">>)
                 /\ tk' = tk
                 /\ disk' = WriteFile(RemoveFile(disk, "temp_full.tex"),
                                      "index.qmd", disk["_quarto.yml"])
    /\ UNCHANGED <<textVars, callVars, tools>>

\* output_html is index.html copied, when index.html is among the pages and no
\* output_html exists yet
named_output(copied, pages, h) ==
    IF pages = IndexPath /\ HtmlPath \notin DOMAIN copied
    THEN WriteFile(copied, HtmlPath, h) ELSE copied

\* create_quarto_website from quarto render to its return; pages is what the
\* generator left in _site ("none" when _site is missing)
QuartoRender ==
    /\ cv.pc = "quarto"
    /\ \E rc \in {0, 1}, pages \in {"none", "empty", IndexPath, OtherPage}, h \in HtmlDocs :
         /\ calls' = Append(calls, [tool |-> "quarto", to |-> "site", idx |-> 0, rc |-> rc])
         /\ IF rc # 0 \/ pages \in {"none", "empty"}
            THEN /\ StartFallback
                 /\ disk' = disk
            ELSE /\ disk' = enhance_pages(named_output(WriteFile(disk, pages, h), pages, h))
                 /\ cv' = Stage([cv EXCEPT !.pc = "converted", !.copied = cv.tikz_imgs],
                                <<"quarto", "enhance_html_accessibility">>)
                 /\ tk' = tk
    /\ UNCHANGED <<textVars, callVars, tools>>

\* the converter run that writes the final page, and the rest of its caller:
\* convert_with_pandoc and the image copy (app.py), or the tail of
\* convert_latex_simple
Pandoc ==
    /\ cv.pc = "pandoc"
    /\ \E rc \in {0, 1}, h \in HtmlDocs :
         /\ calls' = Append(calls, [tool |-> "pandoc", idx |-> 0, rc |-> rc,
                                    to |-> IF cv.is_beamer THEN "revealjs" ELSE "html5"])
         /\ IF cv.entry = "standalone"
            THEN IF rc # 0
                 THEN /\ cv' = Failed(Stage(cv, <<"pandoc">>),
                                      ErrorPrefix(cv.entry) \o <<"Pandoc failed">>)
                      /\ disk' = disk
                 ELSE /\ cv' = Stage([cv EXCEPT !.pc = "done"],
                                     IF cv.is_beamer THEN <<"pandoc">>
                                     ELSE <<"pandoc", "post_process_html">>)
                      /\ disk' = IF cv.is_beamer THEN WriteFile(disk, HtmlPath, h)
                                 ELSE WriteFile(disk, HtmlPath, PostProcessed[h])
            ELSE IF rc # 0
                 THEN /\ cv' = Failed(Stage(cv, <<"pandoc">>),
                                      ErrorPrefix(cv.entry)
                                      \o <<"Conversion error", "Pandoc conversion failed">>)
                      /\ disk' = WriteFile(disk, TempTex, cv.processed)
                 ELSE /\ cv' = Stage([cv EXCEPT !.pc = "converted",
                                                !.copied = cv.tikz_imgs],
                                     IF cv.is_beamer THEN <<"pandoc">>
                                     ELSE <<"pandoc", "enhance_html_accessibility">>)
                      /\ disk' = IF cv.is_beamer THEN WriteFile(disk, HtmlPath, h)
                                 ELSE WriteFile(disk, HtmlPath, Enhanced[h])
    /\ UNCHANGED <<textVars, callVars, tools, tk>>

\* process_single_latex_file after convert_latex_to_html returned
SingleFinish ==
    /\ cv.entry = "single" /\ cv.pc = "converted"
    /\ IF HtmlPath \in DOMAIN disk
       THEN /\ disk' = enhance_file(disk, HtmlPath)
            /\ cv' = Stage([cv EXCEPT !.pc = "done"], <<"enhance_html_accessibility">>)
       ELSE /\ disk' = disk
            /\ cv' = Failed(cv, ErrorPrefix("single") \o <<"HTML file was not created">>)
    /\ UNCHANGED <<textVars, callVars, tikzVars>>

\* the loop of process_latex_zip after convert_latex_to_html returned
ZipFileFinish ==
    /\ cv.entry = "zip" /\ cv.pc = "converted"
    /\ cv' = IF HtmlPath \in DOMAIN disk THEN [cv EXCEPT !.pc = "done"]
             ELSE Failed(cv, <<"was not created">>)
    /\ UNCHANGED <<textVars, callVars, tikzVars, disk>>

FragsConv == {"X", "NL", "BLOCK", "BEAMER", "SECTION", "IN_A"}

InitConv ==
    /\ frags \in SeqsUpTo(FragsConv, MaxConvFrags)
    /\ kw = 1
    /\ impl = "none"
    /\ pc = "ready"
    /\ out = <<>>
    /\ files \in SUBSET {PathDoc, PathA}
    /\ tools \in ToolSets
    /\ tk = TkIdle
    /\ calls = <<>>
    /\ cv \in {[CvIdle EXCEPT !.entry = e, !.pc = "start"] : e \in {"single", "zip", "standalone"}}
    /\ disk = NoFiles
    /\ IdleCalls

NextConv ==
    \/ SingleStart
    \/ StandaloneStart
    \/ TikzEnter /\ UNCHANGED <<textVars, callVars, convVars>>
    \/ TikzCompile /\ UNCHANGED <<textVars, callVars, convVars>>
    \/ TikzRasterize /\ UNCHANGED <<textVars, callVars, convVars>>
    \/ TikzReturn /\ UNCHANGED <<textVars, callVars, convVars>>
    \/ ResumeAfterTikz
    \/ PandocToMarkdown
    \/ QuartoRender
    \/ Pandoc
    \/ SingleFinish
    \/ ZipFileFinish

SpecConv == InitConv /\ [][NextConv]_vars

\* ==================================================== properties, SpecConv
ToolMissing == ~tools.pdflatex \/ ~tools.pdftoppm
ConverterInvoked == \E j \in 1..Len(calls) : calls[j].tool = "pandoc"
Finished == cv.pc \in {"done", "failed"}

\* the text the running conversion hands to preprocess_tikz
TikzArgument ==
    CASE cv.route = "plain"  -> Input
      [] cv.route = "simple" -> IF cv.is_beamer THEN preprocess_beamer_frames(Input) ELSE Input
      [] OTHER               -> resolve_includes(Input, WorkDir, files)

\* C10: with pdflatex or pdftoppm missing no TeX or rasterizer process is ever
\* started; on the upload path preprocess_tikz returns its argument unchanged
\* with an empty image list, never raises, and the conversion of an existing,
\* non-empty document goes on to the converter; the standalone conversion of an
\* existing document ends failed with the error naming the missing tools, and
\* the converter is never started.
C10_MissingToolsPerCallSite ==
    ToolMissing =>
        /\ \A j \in 1..Len(calls) : calls[j].tool \notin {"pdflatex", "pdftoppm"}
        /\ cv.entry = "single" =>
              /\ tk.pc # "raised"
              /\ tk.pc = "returned" => tk.ret_text = TikzArgument /\ tk.png_paths = <<>>
              /\ (Finished /\ PathDoc \in files /\ Len(strip(Input)) > 0) => ConverterInvoked
        /\ cv.entry = "standalone" =>
              /\ calls = <<>>
              /\ cv.pc # "done"
              /\ (Finished /\ PathDoc \in files) =>
                     cv.error = <<"Conversion failed">> \o MissingToolsError

C10_Witness ==
    /\ ToolMissing /\ cv.entry = "single" /\ cv.pc = "done"
    /\ frags = <<"X", "BLOCK">>
    /\ cv.processed = Input /\ cv.tikz_imgs = <<>>
    /\ calls = <<[tool |-> "pandoc", to |-> "html5", idx |-> 0, rc |-> 0]>>

HasRootLang(h) ==
    \E i \in 1..Len(h) :
        /\ h[i] = "<html"
        /\ LET k == ClassUntil(h, i, ">", 0)
           IN  k # 0 /\ \E j \in (i + 1)..(k - 1) : h[j] = "lang="

InjectedStylesheet == IF cv.entry = "standalone" THEN custom_css ELSE accessibility_css

\* C1: when a conversion to document-mode HTML has succeeded, every page it
\* wrote has a root html element with a lang attribute and holds the injected
\* stylesheet exactly once, right before </head>.
C1_StylesheetInjectedOnce ==
    (cv.pc = "done" /\ ~cv.is_beamer) =>
        \A n \in DOMAIN disk \cap HtmlNames :
            /\ HasRootLang(disk[n])
            /\ Count(disk[n], InjectedStylesheet) = 1
            /\ Contains(disk[n], InjectedStylesheet \o <<"</head>">>)

\* the documents of the conversion requests, by kind (sets of piece sequences)
ConvDocs == SeqsUpTo(FragsConv, MaxConvFrags)
Blank(s) == \A j \in 1..Len(s) : s[j] \in {SP, NL, "\t"}
BlankDocs == {f \in ConvDocs : Blank(Flatten(f, 1))}
BeamerDocs ==
    {f \in ConvDocs : is_beamer(Flatten(f, 1))}
StructuralDocs ==
    {f \in ConvDocs : is_structural(Flatten(f, 1))}

\* an existing, non-empty document given to process_single_latex_file
Convertible == cv.entry = "single" /\ PathDoc \in files /\ frags \notin BlankDocs
SiteDocument == Convertible /\ frags \notin BeamerDocs /\ frags \in StructuralDocs

IsPrefix(a, b) == Len(a) <= Len(b) /\ SubSeq(b, 1, Len(a)) = a
LastCall == calls[Len(calls)]

SiteStages == <<"resolve_includes", "preprocess_tikz", "preprocess_latex">>
SingleFileStages ==
    <<"resolve_includes", "preprocess_tikz", "preprocess_latex", "pandoc",
      "enhance_html_accessibility", "enhance_html_accessibility">>

\* C12: for a non-presentation document with \include, \input, \chapter or
\* \section the site build is attempted first; a failed site build (converter,
\* site generator, missing or empty _site) is never the error of the request
\* (on the site route only the upload layer's check of the page it expects can
\* fail, after a site build that succeeded):
\* the single-file conversion runs on the resolved text (includes, TikZ,
\* rewrites, html5 converter, image copy) and its outcome is the outcome.
C12_SiteFailureFallsBack ==
    SiteDocument =>
        /\ cv.pc # "start" => cv.route \in {"site", "fallback"}
        /\ (cv.route = "site" /\ cv.pc = "failed") =>
              /\ LastCall.tool = "quarto" /\ LastCall.rc = 0
              /\ cv.error = ErrorPrefix("single") \o <<"HTML file was not created">>
        /\ cv.route = "fallback" =>
              /\ \E j \in 1..Len(calls) : calls[j].tool = "pandoc"
              /\ \E pre \in {SiteStages, SiteStages \o <<"pandoc">>} :
                    /\ IsPrefix(pre, cv.stages)
                    /\ IsPrefix(SubSeq(cv.stages, Len(pre) + 1, Len(cv.stages)),
                                SingleFileStages)
              /\ (cv.pc = "tikz" /\ tk.pc = "call") =>
                    tk.content = resolve_includes(Input, WorkDir, files) /\ tk.impl = "app"
              /\ (ToolMissing /\ cv.pc = "pandoc") =>
                    cv.processed = preprocess_latex(resolve_includes(Input, WorkDir, files))
              /\ cv.pc = "failed" =>
                    /\ LastCall.tool = "pandoc" /\ LastCall.rc # 0
                    /\ cv.error = ErrorPrefix("single")
                                  \o <<"Conversion error", "Pandoc conversion failed">>
              /\ cv.pc \in {"converted", "done"} =>
                    /\ LastCall.tool = "pandoc" /\ LastCall.rc = 0
                    /\ HtmlPath \in DOMAIN disk
                    /\ cv.copied = cv.tikz_imgs

\* the site generator exits non-zero, and the fallback converts the document,
\* rendering its picture again
C12_Witness ==
    /\ SiteDocument /\ cv.route = "fallback" /\ cv.pc = "done"
    /\ \E j \in 1..Len(calls) : calls[j].tool = "quarto" /\ calls[j].rc # 0
    /\ Len(cv.copied) = 1

\* convert_latex_to_html runs for the upload of one file and for a file of a zip
ViaConvert == cv.entry \in {"single", "zip"}
FinalConverterFailed ==
    /\ calls # <<>>
    /\ LastCall.tool = "pandoc" /\ LastCall.to # "markdown" /\ LastCall.rc # 0

\* C13: convert_latex_to_html does not succeed, and ends with one error that
\* names the cause, when the input file is missing, when the input is empty or
\* blank, and when the converter run that writes the final page exits non-zero;
\* for a missing or blank input no external tool has been started and no file
\* has been written.
C13_InputAndConverterErrors ==
    ViaConvert =>
        /\ (PathDoc \notin files \/ frags \in BlankDocs) =>
              /\ cv.pc \in {"start", "failed"}
              /\ calls = <<>> /\ disk = NoFiles /\ tk = TkIdle
              /\ cv.pc = "failed" =>
                    cv.error =
                        CASE PathDoc \in files ->
                               ErrorPrefix(cv.entry)
                               \o <<"Conversion error", "LaTeX file is empty">>
                          [] cv.entry = "zip" ->
                               <<"Error converting", "File error", "LaTeX file not found">>
                          [] OTHER ->
                               <<"Failed to process LaTeX file", "File not found">>
        /\ FinalConverterFailed =>
              /\ cv.pc = "failed"
              /\ cv.error = ErrorPrefix(cv.entry)
                            \o <<"Conversion error", "Pandoc conversion failed">>

\* a blank document of a zip archive
C13_Witness ==
    /\ cv.entry = "zip" /\ cv.pc = "failed"
    /\ PathDoc \in files /\ frags = <<"NL", "NL">>
    /\ cv.error = <<"Error converting", "Conversion error", "LaTeX file is empty">>

PostProcessors == {"enhance_html_accessibility", "post_process_html"}
StagesRun == {cv.stages[j] : j \in 1..Len(cv.stages)}

\* C14: for a document of class beamer the converter is run with the revealjs
\* target and no HTML post-processor is applied to the slideshow it wrote, from
\* process_single_latex_file, process_latex_zip and convert_latex_simple alike;
\* for every other document the target of the final converter run is html5.
C14_SlideshowNotPostProcessed ==
    /\ \A j \in 1..Len(calls) :
          (calls[j].tool = "pandoc" /\ calls[j].to # "markdown") =>
              calls[j].to = IF frags \in BeamerDocs THEN "revealjs" ELSE "html5"
    /\ frags \in BeamerDocs =>
          /\ StagesRun \cap PostProcessors = {}
          /\ HtmlPath \in DOMAIN disk => disk[HtmlPath] \in HtmlDocs

\* the place of a stage in the order of the pipeline
StageRank(name) ==
    CASE name = "resolve_includes"         -> 1
      [] name = "preprocess_tikz"          -> 2
      [] name = "preprocess_beamer_frames" -> 3
      [] name \in {"preprocess_latex", "preprocess_latex_simple"} -> 4
      [] name \in {"pandoc", "quarto"}     -> 5
      [] name \in PostProcessors           -> 6

InOrder(stages) ==
    \A i, j \in 1..Len(stages) : i < j => StageRank(stages[i]) <= StageRank(stages[j])

\* where the single-file conversion after a failed site build starts in the log
FallbackFrom ==
    CHOOSE i \in 1..Len(cv.stages) :
        /\ cv.stages[i] = "resolve_includes"
        /\ \A j \in (i + 1)..Len(cv.stages) : cv.stages[j] # "resolve_includes"

\* C16: on every conversion path the stages that run do so in the order include
\* resolver, TikZ renderer, beamer-frame flattener, rewriter, external
\* converter, post-processor (the site build and the fallback after it are two
\* paths, each taken by itself).
C16_StagesInPipelineOrder ==
    IF cv.route = "fallback"
    THEN /\ InOrder(SubSeq(cv.stages, 1, FallbackFrom - 1))
         /\ InOrder(SubSeq(cv.stages, FallbackFrom, Len(cv.stages)))
    ELSE InOrder(cv.stages)

\* the unit of work a call hands to its tool: the tool, what it has to produce,
\* and for the TikZ tools the block
SameWork(a, b) == a.tool = b.tool /\ a.to = b.to /\ a.idx = b.idx

\* C20: within one conversion request every external call is attempted once: no
\* two calls of the request hand the same unit of work to the same tool, so no
\* failed invocation is retried and no tikzpicture block is compiled or
\* rasterized twice, the fallback after a failed site build included.
C20_EachCallAttemptedOnce ==
    \A j \in 1..Len(calls) : \A k \in (j + 1)..Len(calls) : ~SameWork(calls[j], calls[k])

\* Reading a page: where the tag that opens at i ends, and whether the quote
\* block that opens at i has a first paragraph that starts with the bold label
\* of display (the tags with or without the attributes the post-processors add).
TagEnd(h, i) ==
    IF h[i] \in {"<blockquote>", "<p>", "<strong>", "<strong class=theorem-label>"} THEN i
    ELSE IF h[i] \in {"<blockquote class=theorem-block data-theorem=", "<p data-theorem="}
              /\ i + 2 <= Len(h) /\ h[i + 2] = ">"
    THEN i + 2 ELSE 0
OpensWith(h, i, tags) == i \in 1..Len(h) /\ h[i] \in tags /\ TagEnd(h, i) # 0
FirstParagraph(h, i) == skip_spaces(h, TagEnd(h, i) + 1)
FirstLabel(h, i) == skip_spaces(h, TagEnd(h, FirstParagraph(h, i)) + 1)
LabelledQuote(h, i, display) ==
    /\ OpensWith(h, i, {"<blockquote>", "<blockquote class=theorem-block data-theorem="})
    /\ OpensWith(h, FirstParagraph(h, i), {"<p>", "<p data-theorem="})
    /\ OpensWith(h, FirstLabel(h, i), {"<strong>", "<strong class=theorem-label>"})
    /\ MatchAt(h, FirstLabel(h, i) + 1, <<display, ":", "</strong>">>)

\* C21: on every page a finished document-mode conversion has post-processed,
\* each quote block whose first paragraph starts with the bold label of one of
\* the theorem environments carries the class theorem-block and the
\* data-theorem attribute of that environment, the attribute its paragraph
\* carries when it carries one.
C21_LabelledQuotesTagged ==
    (cv.pc = "done" /\ ~cv.is_beamer) =>
        \A n \in DOMAIN disk \cap HtmlNames : \A k \in 1..Len(theorem_envs) :
            \A i \in 1..Len(disk[n]) :
                LabelledQuote(disk[n], i, theorem_envs[k][2]) =>
                    /\ disk[n][i] = "<blockquote class=theorem-block data-theorem="
                    /\ disk[n][i + 1] = theorem_envs[k][1]
                    /\ disk[n][FirstParagraph(disk[n], i)] = "<p data-theorem="
                         => disk[n][FirstParagraph(disk[n], i) + 1] = theorem_envs[k][1]

\* ===================================================== zip batches (5, 7)
MaxZipFiles == 3

\* the members an extracted archive may hold: directory and file name
ZipMembers ==
    {[dir |-> "", file |-> <<"a", ".tex">>],
     [dir |-> "", file |-> <<"b", ".latex">>],
     [dir |-> "", file |-> <<"main", ".tex">>],
     [dir |-> "d", file |-> <<"Main", ".tex">>],
     [dir |-> "d", file |-> <<"a", ".tex">>],
     [dir |-> "", file |-> <<".", "a", ".tex">>],
     [dir |-> "", file |-> <<"MAIN", ".TEX">>]}

\* str.lower of a file name
lower(file) ==
    [j \in 1..Len(file) |->
        CASE file[j] \in {"Main", "MAIN"} -> "main"
          [] file[j] = ".TEX"             -> ".tex"
          [] OTHER                        -> file[j]]

\* file.endswith(('.tex', '.latex')) and not file.startswith('.')
is_latex_file(file) == file[Len(file)] \in {".tex", ".latex"} /\ file[1] # "."

\* os.path.splitext(os.path.basename(latex_file))[0]
base_name(member) == SubSeq(member.file, 1, Len(member.file) - 1)

\* the os.walk loop: the files to convert and the last main.tex seen
discover(walk, j, found) ==
    IF ~is_latex_file(walk[j].file) THEN found
    ELSE IF lower(walk[j].file) = <<"main", ".tex">>
    THEN [found EXCEPT !.main_tex = <<walk[j]>>]
    ELSE [found EXCEPT !.latex_files = Append(@, walk[j])]

RECURSIVE discover_from(_, _, _)
discover_from(walk, j, found) ==
    IF j > Len(walk) THEN found
    ELSE discover_from(walk, j + 1, discover(walk, j, found))

\* if main_tex: latex_files = [main_tex]
select_main_too(found) ==
    IF Len(found.main_tex) > 0 THEN found.main_tex \o found.latex_files
    ELSE found.latex_files

select_main(found) ==
    IF Len(found.main_tex) > 0 THEN found.main_tex ELSE found.latex_files

\* process_latex_zip up to the conversion loop
ZipDiscover ==
    /\ batch.pc = "start"
    /\ batch' = [batch EXCEPT
                    !.latex_files = select_main(discover_from(batch.walk, 1,
                                        [latex_files |-> <<>>, main_tex |-> <<>>])),
                    !.pc = IF Len(select_main(discover_from(batch.walk, 1,
                                        [latex_files |-> <<>>, main_tex |-> <<>>]))) = 0
                           THEN "raised" ELSE "loop",
                    !.error = IF Len(select_main(discover_from(batch.walk, 1,
                                        [latex_files |-> <<>>, main_tex |-> <<>>]))) = 0
                              THEN <<"No LaTeX files found in the zip archive">>
                              ELSE <<>>,
                    !.i = 1]
    /\ UNCHANGED <<textVars, tikzVars, convVars, jobs, shared, bm, stack, order>>

\* what one call convert_latex_to_html(latex_file, html_path) can do: write
\* html_path and return, return without html_path (a site build that left no
\* index.html), or raise
ConvertOutcomes == {"written", "returned", "raised"}

\* the body of the conversion loop for latex_file, after the conversion
zip_record(b, latex_file, outcome) ==
    IF outcome = "raised"
    THEN [b EXCEPT !.errors = Append(@, <<"Error converting", latex_file>>)]
    ELSE IF outcome = "written" \/ base_name(latex_file) \in b.out_dir
    THEN [b EXCEPT !.successes = @ + 1, !.out_dir = @ \cup {base_name(latex_file)}]
    ELSE [b EXCEPT !.errors = Append(@, <<"was not created", latex_file>>)]

\* one turn of the conversion loop
ZipConvert ==
    /\ batch.pc = "loop" /\ batch.i <= Len(batch.latex_files)
    /\ \E outcome \in ConvertOutcomes :
         batch' = [zip_record(batch, batch.latex_files[batch.i], outcome) EXCEPT
                      !.attempted = Append(@, [file |-> batch.latex_files[batch.i],
                                               outcome |-> outcome,
                                               existed |-> base_name(batch.latex_files[batch.i])
                                                           \in batch.out_dir]),
                      !.i = @ + 1]
    /\ UNCHANGED <<textVars, tikzVars, convVars, jobs, shared, bm, stack, order>>

\* after the loop: the aggregated error, or the name of the output directory
ZipFinish ==
    /\ batch.pc = "loop" /\ batch.i > Len(batch.latex_files)
    /\ batch' = IF batch.successes = 0
                THEN [batch EXCEPT !.pc = "raised",
                         !.error = <<"No files were converted successfully">>
                                   \o SubSeq(batch.errors, 1,
                                             IF Len(batch.errors) < 3 THEN Len(batch.errors)
                                             ELSE 3)]
                ELSE [batch EXCEPT !.pc = "returned"]
    /\ UNCHANGED <<textVars, tikzVars, convVars, jobs, shared, bm, stack, order>>

\* the walk orders of the members of an archive; the output directory may hold
\* a page of an earlier batch of the same name (makedirs(..., exist_ok=True))
Walks(n) ==
    {w \in UNION {[1..k -> ZipMembers] : k \in 0..n} :
        \A x, y \in 1..Len(w) : x # y => w[x] # w[y]}

InitZip ==
    /\ frags = <<>>
    /\ kw = 1
    /\ impl = "none"
    /\ pc = "ready"
    /\ out = <<>>
    /\ files = {}
    /\ IdleTikz
    /\ jobs = <<>>
    /\ shared = NoFiles
    /\ bm = BeamerIdle
    /\ stack = <<>>
    /\ order = TableOrder
    /\ \E w \in Walks(MaxZipFiles), stale \in {{}, {<<"a">>}} :
         batch = [BatchIdle EXCEPT !.pc = "start", !.walk = w, !.out_dir = stale]

NextZip == ZipDiscover \/ ZipConvert \/ ZipFinish

SpecZip == InitZip /\ [][NextZip]_vars

\* ===================================================== properties, SpecZip
ZipOver == batch.pc \in {"returned", "raised"} /\ batch.i > 0
Discovered == {j \in 1..Len(batch.walk) : is_latex_file(batch.walk[j].file)}
NamedMain(member) == lower(member.file) = <<"main", ".tex">>

\* the conversion of the j-th attempted file returned and its page exists
ConvertedAt(j) ==
    /\ batch.attempted[j].outcome # "raised"
    /\ batch.attempted[j].outcome = "written" \/ batch.attempted[j].existed

Jobs == {1, 2}
JobDocs == {<<"X">>, <<"SECTION">>, <<"BEAMER">>, <<"X", "NL", "X">>}

\* the text a conversion hands to the converter: processed_content
job_text(content) ==
    IF is_beamer(content) THEN preprocess_latex(preprocess_beamer_frames(content))
    ELSE IF is_structural(content)
    THEN preprocess_latex(tikz_enter(TkCall("app", resolve_includes(content, WorkDir, {})),
                                     TRUE).ret_text)
    ELSE preprocess_latex(tikz_enter(TkCall("app", content), TRUE).ret_text)

Written(d, name, content, by) == WriteFile(d, name, [content |-> content, by |-> by])

\* what a tool started by job p reads from file name: content and writer
read_by(job, d, name) ==
    IF name \in DOMAIN d
    THEN [job EXCEPT !.got = Append(@, [file |-> name, content |-> d[name].content,
                                        by |-> d[name].by]),
                     !.pending = @ \ {name}]
    ELSE [job EXCEPT !.pending = @ \ {name}]

\* convert_latex_to_html up to the first file it writes in work_dir: the files
\* of the site build, or temp_processed.tex of convert_with_pandoc (also when
\* the single-file conversion starts after a failed site build)
JobPrepare(p) ==
    /\ jobs[p].pc \in {"start", "fallback"}
    /\ IF jobs[p].pc = "start" /\ ~is_beamer(Flatten(jobs[p].doc, 1))
          /\ is_structural(Flatten(jobs[p].doc, 1))
       THEN /\ jobs' = [jobs EXCEPT ![p].pc = "markdown",
                                    ![p].processed = job_text(Flatten(jobs[p].doc, 1)),
                                    ![p].pending = {"_quarto.yml", "temp_full.tex"}]
            /\ shared' = Written(Written(Written(shared, "_quarto.yml",
                                     site_title(field_of(Pat("title"),
                                                         Flatten(jobs[p].doc, 1))), p),
                                   "styles.css", <<"styles">>, p),
                           "temp_full.tex", job_text(Flatten(jobs[p].doc, 1)), p)
       ELSE /\ jobs' = [jobs EXCEPT ![p].pc = "pandoc",
                                    ![p].processed = job_text(Flatten(jobs[p].doc, 1)),
                                    ![p].pending = {TempTex}]
            /\ shared' = Written(shared, TempTex, job_text(Flatten(jobs[p].doc, 1)), p)
    /\ UNCHANGED <<textVars, tikzVars, convVars, batch, bm, stack, order>>

\* create_quarto_website: pandoc reads temp_full.tex; then index.qmd is written
\* and the temporary files are removed
JobMarkdown(p) ==
    /\ jobs[p].pc = "markdown"
    /\ \E rc \in {0, 1} :
         IF rc # 0 \/ "temp_full.tex" \notin DOMAIN shared
         THEN /\ jobs' = [jobs EXCEPT ![p] = [read_by(@, shared, "temp_full.tex")
                                                 EXCEPT !.pc = "fallback", !.pending = {}]]
              /\ shared' = shared
         ELSE /\ jobs' = [jobs EXCEPT ![p] = [read_by(@, shared, "temp_full.tex")
                                                 EXCEPT !.pc = "quarto",
                                                        !.pending = @ \cup {"index.qmd"}]]
              /\ shared' = RemoveFile(Written(shared, "index.qmd",
                                              shared["temp_full.tex"].content, p),
                                      "temp_full.tex")
    /\ UNCHANGED <<textVars, tikzVars, convVars, batch, bm, stack, order>>

\* create_quarto_website: quarto render reads _quarto.yml and index.qmd
JobQuarto(p) ==
    /\ jobs[p].pc = "quarto"
    /\ \E rc \in {0, 1} :
         jobs' = [jobs EXCEPT ![p] = [read_by(read_by(@, shared, "_quarto.yml"),
                                              shared, "index.qmd")
                                         EXCEPT !.pc = IF rc # 0 THEN "fallback" ELSE "done",
                                                !.pending = {}]]
    /\ UNCHANGED <<textVars, tikzVars, convVars, batch, shared, bm, stack, order>>

\* convert_with_pandoc: pandoc reads temp_processed.tex
JobPandoc(p) ==
    /\ jobs[p].pc = "pandoc"
    /\ \E rc \in {0, 1} :
         jobs' = [jobs EXCEPT ![p] = [read_by(@, shared, TempTex)
                                         EXCEPT !.pc = IF rc # 0 \/ TempTex \notin DOMAIN shared
                                                       THEN "failed" ELSE "remove"]]
    /\ UNCHANGED <<textVars, tikzVars, convVars, batch, shared, bm, stack, order>>

\* convert_with_pandoc: if os.path.exists(temp_tex): os.remove(temp_tex)
JobRemoveTemp(p) ==
    /\ jobs[p].pc = "remove"
    /\ jobs' = [jobs EXCEPT ![p].pc = "done"]
    /\ shared' = IF TempTex \in DOMAIN shared THEN RemoveFile(shared, TempTex) ELSE shared
    /\ UNCHANGED <<textVars, tikzVars, convVars, batch, bm, stack, order>>

JobStart(d) ==
    [pc |-> "start", doc |-> d, processed |-> <<>>, pending |-> {}, got |-> <<>>]

InitPar ==
    /\ frags = <<>>
    /\ kw = 1
    /\ impl = "none"
    /\ pc = "ready"
    /\ out = <<>>
    /\ files = {}
    /\ IdleTikz
    /\ batch = BatchIdle
    /\ shared = NoFiles
    /\ bm = BeamerIdle
    /\ stack = <<>>
    /\ order = TableOrder
    /\ \E d1, d2 \in JobDocs : d1 # d2 /\ jobs = <<JobStart(d1), JobStart(d2)>>

NextPar ==
    \E p \in Jobs :
        \/ JobPrepare(p)
        \/ JobMarkdown(p)
        \/ JobQuarto(p)
        \/ JobPandoc(p)
        \/ JobRemoveTemp(p)

SpecPar == InitPar /\ [][NextPar]_vars

\* ===================================================== properties, SpecPar
\* C15: of two conversions of different files that run at the same time, each
\* owns its document source: what a tool started by a conversion reads from an
\* intermediate file is what this conversion wrote (for the converter, its own
\* processed text), and a file a conversion wrote and has not read yet is still
\* there as it wrote it.
C15_ConversionOwnsItsFiles ==
    \A p \in Jobs :
        /\ \A j \in 1..Len(jobs[p].got) :
              /\ jobs[p].got[j].by = p
              /\ jobs[p].got[j].file \in {TempTex, "temp_full.tex"} =>
                    jobs[p].got[j].content = jobs[p].processed
        /\ \A n \in jobs[p].pending : n \in DOMAIN shared /\ shared[n].by = p

\* ============================================== beamer frames, line by line
MaxBeamerFrags == 4
FragsBeamer == {"FBEGIN", "TITLE", "FTITLE", "FBLANK", "FRAMETITLE", "FEND", "PCT", "NL", "X"}

\* one turn of the loop over latex_content.split('\n')
BeamerLine ==
    /\ bm.pc = "loop" /\ bm.i <= Len(bm.lines)
    /\ bm' = [bm EXCEPT !.st = beamer_line(bm.st, split_comment(bm.lines[bm.i])),
                        !.i = @ + 1]
    /\ UNCHANGED <<textVars, tikzVars, convVars, batch, jobs, shared, stack, order>>

\* return '\n'.join([line for line in output_lines if line])
BeamerReturn ==
    /\ bm.pc = "loop" /\ bm.i > Len(bm.lines)
    /\ bm' = [bm EXCEPT !.pc = "returned"]
    /\ out' = join(SelectSeq(bm.st.output_lines, LAMBDA l : Len(l) > 0), NL)
    /\ pc' = "done"
    /\ UNCHANGED <<frags, kw, impl, files, tikzVars, convVars, batch, jobs, shared, stack, order>>

InitBeamer ==
    /\ frags \in SeqsUpTo(FragsBeamer, MaxBeamerFrags)
    /\ kw = 1
    /\ impl = "none"
    /\ pc = "ready"
    /\ out = <<>>
    /\ files = {}
    /\ IdleTikz
    /\ batch = BatchIdle
    /\ jobs = <<>>
    /\ shared = NoFiles
    /\ bm = [pc |-> "loop", lines |-> split(Input, NL), i |-> 1, st |-> BeamerStart]
    /\ stack = <<>>
    /\ order = TableOrder

NextBeamer == BeamerLine \/ BeamerReturn

SpecBeamer == InitBeamer /\ [][NextBeamer]_vars

\* ================================================== properties, SpecBeamer
\* the input line by line, each line as its pieces, and the pieces of its code
\* part (before the first %: the pieces hold no escaped %)
PieceLines == split(frags, "NL")
FirstOf(l, piece) == IF \E j \in 1..Len(l) : l[j] = piece
                     THEN CHOOSE j \in 1..Len(l) : l[j] = piece /\ \A m \in 1..(j - 1) : l[m] # piece
                     ELSE 0
CodePieces(l) == IF FirstOf(l, "PCT") = 0 THEN l ELSE SubSeq(l, 1, FirstOf(l, "PCT") - 1)
PieceAt(l, j) == IF j \in 1..Len(l) THEN l[j] ELSE "none"

\* the non-blank inline title of the first \begin{frame} of a code part, if any
InlineTitle(c) ==
    IF FirstOf(c, "FBEGIN") = 0 THEN <<>>
    ELSE IF PieceAt(c, FirstOf(c, "FBEGIN") + 1) = "FTITLE"
            \/ (PieceAt(c, FirstOf(c, "FBEGIN") + 1) = "TITLE"
                /\ PieceAt(c, FirstOf(c, "FBEGIN") + 2) = "FTITLE")
    THEN <<"T">> ELSE <<>>

IsHeading(line) == IsPrefix(Cmd("section") \o <<"{">>, line)
ThisLine == CodePieces(PieceLines[bm.i])

\* the lines one turn of the loop appended: its headings, then the line itself
Appended ==
    SubSeq(bm'.st.output_lines, Len(bm.st.output_lines) + 1, Len(bm'.st.output_lines))
HeadingsAppended == Cardinality({j \in 1..Len(Appended) : IsHeading(Appended[j])})

BeamerTurn ==
    /\ FirstOf(ThisLine, "FEND") # 0 =>
          ~bm'.st.inside_frame /\ ~bm'.st.frame_title_set
    /\ Len(Appended) = 1 + HeadingsAppended
    /\ HeadingsAppended =
          IF FirstOf(ThisLine, "FBEGIN") # 0
          THEN IF Len(InlineTitle(ThisLine)) > 0 \/ FirstOf(ThisLine, "FRAMETITLE") # 0
               THEN 1 ELSE 0
          ELSE IF bm.st.inside_frame /\ ~bm.st.frame_title_set
                  /\ FirstOf(ThisLine, "FRAMETITLE") # 0
          THEN 1 ELSE 0
    /\ Len(InlineTitle(ThisLine)) > 0 =>
          Appended[1] = Cmd("section") \o Braced(InlineTitle(ThisLine))

\* C17: preprocess_beamer_frames emits at most one \section heading per frame:
\* a line with \begin{frame} emits the heading of its non-blank inline title, a
\* \frametitle emits a heading only inside a frame that has none yet, a line
\* with \end{frame} leaves the loop outside a frame with the title flag reset,
\* and the title flag is never set outside a frame.
C17_OneHeadingPerFrame ==
    /\ [](bm.pc = "loop" => (bm.st.frame_title_set => bm.st.inside_frame))
    /\ [][(bm.pc = "loop" /\ bm'.pc = "loop") => BeamerTurn]_vars

\* \begin{frame}{T}, then \frametitle{U} on the next line: one heading, of T
C17_Witness ==
    /\ bm.pc = "returned"
    /\ frags = <<"FBEGIN", "FTITLE", "NL", "FRAMETITLE">>
    /\ out = Cmd("section") \o Braced(<<"T">>)

OutLines == split(out, NL)

\* C18: in the output of preprocess_beamer_frames the code part of every line
\* holds no \begin{frame}, no \end{frame} and no \frametitle{...}, and no line
\* is empty or blank.
C18_NoFrameTokensLeft ==
    bm.pc = "returned" =>
        /\ \A j \in 1..Len(OutLines) :
              /\ ~Contains(split_comment(OutLines[j]).code, BeginEnv("frame"))
              /\ ~Contains(split_comment(OutLines[j]).code, EndEnv("frame"))
              /\ ~Contains(split_comment(OutLines[j]).code, Cmd("frametitle") \o <<"{">>)
        /\ Len(out) > 0 => \A j \in 1..Len(OutLines) : ~Blank(OutLines[j])


\* =========================================== include resolver, call by call
MaxRunFrags == 2
\* the depth at which the interpreter stops a recursion (sys.getrecursionlimit)
RecursionLimit == 5

FragsRun == {"INC_C", "IN_LOOP", "IN_P", "NL"}
RunPaths == {PathC, PathSubA, PathSubB, PathLoop, PathP, PathQ}

\* the frame of a call resolve_includes(latex_content, base_dir), lines the
\* value of latex_content.split('\n')
IncFrame(path, lines, base_dir) ==
    [path |-> path, lines |-> lines, i |-> 1, resolved_lines |-> <<>>, base_dir |-> base_dir]

\* (mutation of inc_enters: a file that is being resolved is not entered again)
inc_enters_once(include_path, called) ==
    include_path \in files /\ \A j \in 1..Len(called) : called[j].path # include_path

\* if os.path.exists(include_path)
inc_enters(include_path, called) == include_path \in files

\* the path of the directive of a line, <<>> if the line holds none
inc_target(line, m, base_dir, exist) ==
    IF m.start = 0 THEN <<>>
    ELSE include_path_of(include_filename(Group1(line, m.start, m.end)), base_dir, exist)

\* The lines a call can meet, the directories it can run in, and for each the
\* lines of a file and the path a line names: tables of split and inc_target
\* (@@ makes TLC compute each function once, as a table).
RunLines == UNION {{split(Flatten(f, 1), NL)[j] : j \in 1..Len(split(Flatten(f, 1), NL))} :
                      f \in SeqsUpTo(FragsRun \ {"NL"}, MaxRunFrags)}
            \cup UNION {{split(FileContent(q), NL)[j] : j \in 1..Len(split(FileContent(q), NL))} :
                           q \in RunPaths}
RunDirs == {WorkDir} \cup {dirname(q) : q \in RunPaths}
FileLines == [q \in RunPaths |-> split(FileContent(q), NL)] @@ <<>>
IncTargets == [l \in RunLines, d \in RunDirs, e \in SUBSET RunPaths |->
                  inc_target(l, re_search(Pat("include"), l), d, e)] @@ <<>>

IncTop == stack[Len(stack)]
IncTarget == IncTargets[IncTop.lines[IncTop.i], IncTop.base_dir, files]

\* a line without directive, or with the directive of a missing file, is kept
IncLine ==
    /\ pc = "ready" /\ stack # <<>> /\ IncTop.i <= Len(IncTop.lines)
    /\ IncTarget = <<>> \/ ~inc_enters(IncTarget, stack)
    /\ stack' = [stack EXCEPT ![Len(stack)].resolved_lines = Append(@, IncTop.lines[IncTop.i]),
                              ![Len(stack)].i = @ + 1]
    /\ UNCHANGED <<textVars, tikzVars, convVars, batch, jobs, shared, bm, order>>

\* the recursive call for an existing file; beyond the recursion limit the
\* interpreter raises RecursionError through all the calls
IncCall ==
    /\ pc = "ready" /\ stack # <<>> /\ IncTop.i <= Len(IncTop.lines)
    /\ IncTarget # <<>> /\ inc_enters(IncTarget, stack)
    /\ IF Len(stack) >= RecursionLimit
       THEN /\ stack' = <<>>
            /\ pc' = "raised"
       ELSE /\ stack' = Append(stack, IncFrame(IncTarget, FileLines[IncTarget],
                                               include_dir(IncTarget, IncTop.base_dir)))
            /\ pc' = pc
    /\ UNCHANGED <<frags, kw, impl, out, files, tikzVars, convVars, batch, jobs, shared, bm, order>>

\* return '\n'.join(resolved_lines): to the caller, which appends it, or to the
\* caller of the outermost call
IncReturn ==
    /\ pc = "ready" /\ stack # <<>> /\ IncTop.i > Len(IncTop.lines)
    /\ IF Len(stack) = 1
       THEN /\ out' = join(IncTop.resolved_lines, NL)
            /\ pc' = "done"
            /\ stack' = <<>>
       ELSE /\ stack' = [SubSeq(stack, 1, Len(stack) - 1) EXCEPT
                            ![Len(stack) - 1].resolved_lines =
                                Append(@, join(IncTop.resolved_lines, NL)),
                            ![Len(stack) - 1].i = @ + 1]
            /\ UNCHANGED <<out, pc>>
    /\ UNCHANGED <<frags, kw, impl, files, tikzVars, convVars, batch, jobs, shared, bm, order>>

InitIncRun ==
    /\ frags \in SeqsUpTo(FragsRun, MaxRunFrags)
    /\ files \in SUBSET RunPaths
    /\ kw = 1
    /\ impl = "app"
    /\ pc = "ready"
    /\ out = <<>>
    /\ IdleTikz
    /\ batch = BatchIdle
    /\ jobs = <<>>
    /\ shared = NoFiles
    /\ bm = BeamerIdle
    /\ stack = <<IncFrame(PathDoc, split(Input, NL), WorkDir)>>
    /\ order = TableOrder

NextIncRun == IncLine \/ IncCall \/ IncReturn

\* a call that is running goes on running
SpecIncRun == InitIncRun /\ [][NextIncRun]_vars /\ WF_vars(NextIncRun)

\* The include graph of the run, read off the files: which files of the working
\* directory the document names first on a line, and which of them lead back to
\* themselves through existing files.
FirstDirective(l) == CHOOSE j \in 1..Len(l) : l[j] \in {"INC_C", "IN_LOOP", "IN_P"}
                         /\ \A m \in 1..(j - 1) : l[m] \notin {"INC_C", "IN_LOOP", "IN_P"}
EnteredRoots == {CASE l[FirstDirective(l)] = "INC_C" -> PathC
                   [] l[FirstDirective(l)] = "IN_LOOP" -> PathLoop
                   [] OTHER -> PathP :
                     l \in {PieceLines[n] : n \in {n \in 1..Len(PieceLines) :
                              \E j \in 1..Len(PieceLines[n]) :
                                  PieceLines[n][j] \in {"INC_C", "IN_LOOP", "IN_P"}}}} \cap files
ReachesCycle == PathLoop \in EnteredRoots \/ (PathP \in EnteredRoots /\ PathQ \in files)

\* C19: resolve_includes returns a text on every acyclic include graph, the text
\* of the document with each directive of an existing file replaced by that
\* file's resolved text; when an existing file includes itself, directly or
\* through other existing files, no call returns to the caller of the outermost
\* one: the recursion goes on until the interpreter stops it.
C19_ReturnsIffAcyclic ==
    /\ [](~ReachesCycle => <>(pc = "done"))
    /\ [](ReachesCycle => pc # "done")
    /\ [](ReachesCycle => <>(pc = "raised"))
    /\ []((pc = "done" /\ ~ReachesCycle) => out = resolve_includes(Input, WorkDir, files))

C19_Witness ==
    /\ frags = <<"IN_P">> /\ files = {PathP, PathQ, PathC, PathSubB}
    /\ pc = "raised" /\ stack = <<>>

C19_WitnessAcyclic ==
    /\ frags = <<"INC_C", "IN_P">> /\ files = {PathC, PathSubB, PathSubA, PathP, PathQ, PathLoop}
    /\ pc = "done" /\ out = <<"B1", NL, "SA1", NL, "SA2">>


\* ============================================ theorem rewrite, keyword order
MaxOrderFrags == 4
\* pieces of a line with two keywords: the begin of one, the begin and end of
\* the next one of the table, a bracketed title and an opening bracket
FragsOrder == {"BEGIN", "BEGIN2", "END2", "TITLE", "LB"}
Orders == {TableOrder, [n \in 1..Len(theorem_envs) |-> Len(theorem_envs) + 1 - n]}

\* the line loop of preprocess_latex with the keyword loop run in order ord
rewrite_line_in(sc, ord) == rewrite_envs_in(strip_multicols(sc.code), ord, 1) \o sc.comment

rewrite_theorems_in(content, ord) ==
    join([i \in 1..Len(split(content, NL)) |->
             rewrite_line_in(split_comment(split(content, NL)[i]), ord)], NL)

RewriteInOrder ==
    /\ pc = "ready"
    /\ out' = rewrite_theorems_in(Input, order)
    /\ pc' = "done"
    /\ UNCHANGED <<frags, kw, impl, files, tikzVars, convVars, callVars>>

InitOrder ==
    /\ frags \in SeqsUpTo(FragsOrder, MaxOrderFrags)
    /\ kw \in 1..Len(theorem_envs)
    /\ order \in Orders
    /\ impl = "none"
    /\ pc = "ready"
    /\ out = <<>>
    /\ files = {}
    /\ IdleTikz
    /\ batch = BatchIdle
    /\ jobs = <<>>
    /\ shared = NoFiles
    /\ bm = BeamerIdle
    /\ stack = <<>>

NextOrder == RewriteInOrder

SpecOrder == InitOrder /\ [][NextOrder]_vars

\* C22: the rewritten line does not depend on the order in which the keywords
\* are processed: whatever the order of the keyword loop, the result is the one
\* of the table order.
C22_KeywordOrderIrrelevant == pc = "done" => out = rewrite_theorems(Input)


\* ================================================== framebox/parbox inputs
\* pieces: the opening of the construct up to the brace that opens the body,
\* text, a newline, a balanced nested group, and the two closing braces
FragsBox == {"FBOX", "X", "NL", "NEST", "BOXEND"}
InitBox == InitPre(FragsBox, {1})
SpecBox == InitBox /\ [][NextPre]_vars

\* A construct is an opening piece, a body of text, newlines and nested groups,
\* and the closing piece; BoxClose is the piece that closes the one opened at i
\* (0 if there is none).
BoxClose(fs, i) ==
    IF \E j \in (i + 1)..Len(fs) : fs[j] = "BOXEND" /\ \A m \in (i + 1)..(j - 1) : fs[m] \in {"X", "NL", "NEST"}
    THEN CHOOSE j \in (i + 1)..Len(fs) : fs[j] = "BOXEND" /\ \A m \in (i + 1)..(j - 1) : fs[m] \in {"X", "NL", "NEST"}
    ELSE 0

RECURSIVE ExpectedBox(_, _)
ExpectedBoxAt(fs, i, j) ==
    IF fs[i] = "FBOX" /\ j # 0
    THEN BeginEnv("quote") \o <<NL>> \o Flatten(SubSeq(fs, i + 1, j - 1), 1) \o <<NL>>
         \o EndEnv("quote") \o ExpectedBox(fs, j + 1)
    ELSE FragText(fs[i], 1) \o ExpectedBox(fs, i + 1)
ExpectedBox(fs, i) ==
    IF i > Len(fs) THEN <<>> ELSE ExpectedBoxAt(fs, i, BoxClose(fs, i))

\* the texts whose braces outside the constructs are none: every opening piece
\* has its closing piece and every closing piece closes one
BoxesClosed(fs) ==
    /\ \A i \in 1..Len(fs) : fs[i] = "FBOX" => BoxClose(fs, i) # 0
    /\ \A j \in 1..Len(fs) : fs[j] = "BOXEND" => \E i \in 1..(j - 1) : fs[i] = "FBOX" /\ BoxClose(fs, i) = j

\* C23: in a text whose constructs are all closed, every
\* \framebox{\parbox{w}{body}} becomes a quote block that holds the body
\* verbatim, the body reaching to the brace that matches the one that opens
\* it, over several lines and with balanced nested groups inside; no closing
\* brace of the construct stays behind and nothing of the body is cut.
C23_BoxBodyVerbatim == (pc = "done" /\ BoxesClosed(frags)) => out = ExpectedBox(frags, 1)


\* ============================================ the two copies of the stage
\* pieces on which the copies could part: a reference, a title command, and
\* the opening and closing of a framebox/parbox construct
FragsBoth == {"REF", "TITLECMD", "FBOX", "BOXEND", "X"}
InitBoth == InitPre(FragsBoth, {1})
SpecBoth == InitBoth /\ [][NextPre]_vars

\* C24: the two copies of the preprocessing stage are equivalent: the text one
\* of them returns for an input is the text the other returns for it, title
\* block and references included.
C24_CopiesAgree ==
    pc = "done" =>
        /\ impl = "app" => out = preprocess_latex_simple(Input)
        /\ impl = "simple" => out = preprocess_latex(Input)

====
